---- MODULE Spec2Model ----
(***************************************************************************)
(* MarchingNumPy / MarchingCuPy: the marching pipeline (find_intersects,   *)
(* volume_types, ambiguity_resolution, look_up_geometry, convert_indexes)  *)
(* as wired by marching_factory for the 2D bindings marching_squares,      *)
(* marching_triangles and marching_triangles_reversed, with the argument   *)
(* checks of the factory, and find_intersects, volume_types and           *)
(* convert_indexes called directly; and the two marching cubes scripts of  *)
(* src/videos.  A call is one step: it returns its arrays or raises.       *)
(*                                                                         *)
(* Arrays are functions or sequences; a grid position is a tuple of        *)
(* 0-based indexes <<x, y>>; row-major order is the order of               *)
(* numpy.nonzero.  Sample values are integers and the interpolated         *)
(* offsets are kept exact (rationals, and arccos(r)/pi kept symbolic).     *)
(***************************************************************************)
EXTENDS Integers, Sequences, FiniteSets, TLC

(***************************************************************************)
(* Bounds of the model.                                                    *)
(***************************************************************************)
\* samples of a single-cell volume lie in -1 .. MaxVal
MaxVal == 2
\* the level lies in 0 .. MaxLevel
MaxLevel == 1
\* the step size lies in 1 .. MaxStep
MaxStep == 3
\* the ids passed to convert_indexes directly lie in 0 .. MaxId
MaxId == 3

(***************************************************************************)
(* Exact arithmetic.                                                       *)
(***************************************************************************)
Abs(x) == IF x < 0 THEN -x ELSE x

RECURSIVE GCD(_, _)
GCD(a, b) == IF b = 0 THEN a ELSE GCD(b, a % b)

\* A real number n/d + arccos(acos[1]/acos[2])/pi (the arccos term absent when
\* acos = <<>>).  d = 0 stands for the result of a division by zero or of an
\* arccos outside [-1, 1] (inf / nan).
NaN == [n |-> 0, d |-> 0, acos |-> <<>>]

Rat(n, d) ==
    IF d = 0 THEN NaN
    ELSE LET g == GCD(Abs(n), Abs(d))
             s == IF d < 0 THEN -1 ELSE 1
         IN  [n |-> (s * n) \div g, d |-> (s * d) \div g, acos |-> <<>>]

IsNaN(r) == r.d = 0

\* r is a plain rational (no arccos term)
IsRat(r) == r.d > 0 /\ r.acos = <<>>

\* numpy.arccos(n/d) / numpy.pi, exact where the quotient is rational
ArccosOverPi(r) ==
    IF IsNaN(r) \/ Abs(r.n) > r.d THEN NaN
    ELSE IF r.n = r.d THEN Rat(0, 1)
    ELSE IF r.n = -r.d THEN Rat(1, 1)
    ELSE IF r.n = 0 THEN Rat(1, 2)
    ELSE IF 2 * r.n = r.d THEN Rat(1, 3)
    ELSE IF 2 * r.n = -r.d THEN Rat(2, 3)
    ELSE [n |-> 0, d |-> 1, acos |-> <<r.n, r.d>>]

\* corner + t * k for integers corner, k in {0, 1} (nan * 0 = nan)
AddScaled(corner, t, k) ==
    IF IsNaN(t) THEN NaN
    ELSE IF k = 0 THEN Rat(corner, 1)
    ELSE [n |-> corner * t.d + k * t.n, d |-> t.d, acos |-> t.acos]

\* 0 <= t <= 1 (arccos/pi of an argument in [-1, 1] lies in [0, 1])
InUnit(t) == t.d > 0 /\ t.n >= 0 /\
             IF t.acos = <<>> THEN t.n <= t.d ELSE t.n = 0

(***************************************************************************)
(* Indexing: shapes, row-major order, slices.                              *)
(***************************************************************************)
RECURSIVE Prod(_)
Prod(s) == IF s = <<>> THEN 1 ELSE Head(s) * Prod(Tail(s))

RECURSIVE Dot(_, _)
Dot(a, b) == IF a = <<>> THEN 0 ELSE Head(a) * Head(b) + Dot(Tail(a), Tail(b))

\* the positions of an array in column-major order (first index fastest)
ColumnMajor(shape) ==
    [k \in 1 .. Prod(shape) |->
        [a \in 1 .. Len(shape) |->
            ((k - 1) \div Prod(SubSeq(shape, 1, a - 1))) % shape[a]]]

\* the positions of an array of the given shape, in row-major order
RowMajor(shape) ==
    [k \in 1 .. Prod(shape) |->
        [a \in 1 .. Len(shape) |->
            ((k - 1) \div Prod(SubSeq(shape, a + 1, Len(shape)))) % shape[a]]]

RECURSIVE SeqToSet(_)
SeqToSet(s) == IF s = <<>> THEN {} ELSE {Head(s)} \cup SeqToSet(Tail(s))

Positions(shape) == SeqToSet(RowMajor(shape))

\* slice(start, stop) per axis; stop = 0 stands for None, stop = -1 for -1
Sl(start, stop) == [start |-> start, stop |-> stop]
AllButLast == Sl(0, -1)
AllButFirst == Sl(1, 0)
Whole == Sl(0, 0)

\* shape of a[slices]
SliceShape(shape, slices) ==
    [a \in 1 .. Len(shape) |-> shape[a] - slices[a].start + slices[a].stop]

\* the position in a of a[slices][p]
SliceBase(slices, p) == [a \in 1 .. Len(p) |-> p[a] + slices[a].start]

VecAdd(p, q) == [a \in 1 .. Len(p) |-> p[a] + q[a]]

\* a[i] for a Python sequence a and an index i that may be negative
At(a, i) == IF i < 0 THEN a[Len(a) + i + 1] ELSE a[i + 1]

(***************************************************************************)
(* Static tables of the bindings.                                          *)
(***************************************************************************)
\* the corner slices taken one place on: (x+1, y) first and (x, y) last
VOLUME_TYPE_SLICES_Shifted ==
    << <<AllButFirst, AllButLast>>, <<AllButFirst, AllButFirst>>,
       <<AllButLast, AllButFirst>>, <<AllButLast, AllButLast>> >>

VOLUME_TYPE_SLICES ==
    << <<AllButLast, AllButLast>>,      \* 1: x,   y
       <<AllButFirst, AllButLast>>,     \* 2: x+1, y
       <<AllButFirst, AllButFirst>>,    \* 4: x+1, y+1
       <<AllButLast, AllButFirst>> >>   \* 8: x,   y+1

SQUARES_INTERSECT_SLICE_INDEXES ==
    << << <<AllButLast, Whole>>, <<AllButFirst, Whole>> >>,     \* x,y - x+1,y
       << <<Whole, AllButLast>>, <<Whole, AllButFirst>> >> >>   \* x,y - x,y+1

INTERSECT_SLICE_INDEXES ==
    << << <<AllButLast, Whole>>, <<AllButFirst, Whole>> >>,
       << <<Whole, AllButLast>>, <<Whole, AllButFirst>> >>,
       << <<AllButLast, AllButLast>>, <<AllButFirst, AllButFirst>> >> >>

INTERSECT_SLICE_INDEXES_REVERSED ==
    << << <<AllButLast, Whole>>, <<AllButFirst, Whole>> >>,
       << <<Whole, AllButLast>>, <<Whole, AllButFirst>> >>,
       << <<AllButLast, AllButFirst>>, <<AllButFirst, AllButLast>> >> >>

\* the corner slices of calculate_volume_types (Video02/MarchingProfile.py)
PROFILE_VOLUME_TYPE_SLICES ==
    << <<AllButLast, AllButLast, AllButLast>>, <<AllButFirst, AllButLast, AllButLast>>,
       <<AllButFirst, AllButFirst, AllButLast>>, <<AllButLast, AllButFirst, AllButLast>>,
       <<AllButLast, AllButLast, AllButFirst>>, <<AllButFirst, AllButLast, AllButFirst>>,
       <<AllButFirst, AllButFirst, AllButFirst>>, <<AllButLast, AllButFirst, AllButFirst>> >>

\* 0 Bottom, 1 Right, 2 Top, 3 Left
SQUARES_EDGE_DELTA == << <<0, 0>>, <<1, 0>>, <<0, 1>>, <<0, 0>> >>
SQUARES_EDGE_DIRECTION == <<0, 1, 0, 1>>

\* a table that gives the Bottom edge the direction of the Left edge
EDGE_DIRECTION_Bottom == <<1, 1, 0, 1, 2>>

\* 0 Bottom, 1 Right, 2 Top, 3 Left, 4 Diagonal
EDGE_DELTA == << <<0, 0>>, <<1, 0>>, <<0, 1>>, <<0, 0>>, <<0, 0>> >>
EDGE_DIRECTION == <<0, 1, 0, 1, 2>>

\* a [::-1] that leaves the pair as it is
Unreversed(pair) == pair

\* pair[::-1]
Reversed(pair) == <<pair[2], pair[1]>>

NONE_ == <<-1, -1>>
BOTTOM_LEFT == <<0, 3>>
BOTTOM_RIGHT == <<1, 0>>
VERTICAL == <<2, 0>>
HORIZONTAL == <<1, 3>>
TOP_LEFT == <<2, 3>>
TOP_RIGHT == <<2, 1>>

\* MarchingCuPy/MarchingSquares.py
SQUARES_GEOMETRY_LOOKUP ==
    << NONE_ \o NONE_,                                  \* 0
       BOTTOM_LEFT \o NONE_,                            \* 1
       BOTTOM_RIGHT \o NONE_,                           \* 2
       HORIZONTAL \o NONE_,                             \* 3
       TOP_RIGHT \o NONE_,                              \* 4
       TOP_LEFT \o Reversed(BOTTOM_RIGHT),              \* 5
       VERTICAL \o NONE_,                               \* 6
       TOP_LEFT \o NONE_,                               \* 7
       Reversed(TOP_LEFT) \o NONE_,                     \* 8
       Reversed(VERTICAL) \o NONE_,                     \* 9
       Reversed(TOP_LEFT) \o BOTTOM_RIGHT,              \* 10
       Reversed(TOP_RIGHT) \o NONE_,                    \* 11
       Reversed(HORIZONTAL) \o NONE_,                   \* 12
       Reversed(BOTTOM_RIGHT) \o NONE_,                 \* 13
       Reversed(BOTTOM_LEFT) \o NONE_,                  \* 14
       NONE_ \o NONE_,                                  \* 15
       TOP_RIGHT \o BOTTOM_LEFT,                        \* 5 -> 16
       Reversed(TOP_RIGHT) \o Reversed(BOTTOM_LEFT) >>  \* 10 -> 17

\* MarchingNumpy/MarchingSquares.py
NUMPY_SQUARES_GEOMETRY_LOOKUP ==
    << NONE_ \o NONE_,                                  \* 0
       BOTTOM_LEFT \o NONE_,                            \* 1
       BOTTOM_RIGHT \o NONE_,                           \* 2
       HORIZONTAL \o NONE_,                             \* 3
       TOP_RIGHT \o NONE_,                              \* 4
       TOP_RIGHT \o BOTTOM_LEFT,                        \* 5
       VERTICAL \o NONE_,                               \* 6
       TOP_LEFT \o NONE_,                               \* 7
       Reversed(TOP_LEFT) \o NONE_,                     \* 8
       Reversed(VERTICAL) \o NONE_,                     \* 9
       Reversed(TOP_LEFT) \o BOTTOM_RIGHT,              \* 10
       Reversed(TOP_RIGHT) \o NONE_,                    \* 11
       Reversed(HORIZONTAL) \o NONE_,                   \* 12
       Reversed(BOTTOM_RIGHT) \o NONE_,                 \* 13
       Reversed(BOTTOM_LEFT) \o NONE_,                  \* 14
       NONE_ \o NONE_,                                  \* 15
       TOP_LEFT \o Reversed(BOTTOM_RIGHT),              \* 5 -> 16
       Reversed(TOP_RIGHT) \o Reversed(BOTTOM_LEFT) >>  \* 10 -> 17

\* squares split like /
TOP_HORIZONTAL == <<4, 3>>
TOP_VERTICAL == <<2, 4>>
TOP_CORNER == <<2, 3>>
BOTTOM_VERTICAL == <<0, 4>>
BOTTOM_CORNER == <<1, 0>>
BOTTOM_HORIZONTAL == <<1, 4>>

GEOMETRY_LOOKUP_TOP ==
    << NONE_, TOP_HORIZONTAL, NONE_, TOP_HORIZONTAL,
       TOP_VERTICAL, TOP_CORNER, TOP_VERTICAL, TOP_CORNER,
       Reversed(TOP_CORNER), Reversed(TOP_VERTICAL),
       Reversed(TOP_CORNER), Reversed(TOP_VERTICAL),
       Reversed(TOP_HORIZONTAL), NONE_, Reversed(TOP_HORIZONTAL), NONE_ >>

GEOMETRY_LOOKUP_BOTTOM ==
    << NONE_, BOTTOM_VERTICAL, BOTTOM_CORNER, BOTTOM_HORIZONTAL,
       Reversed(BOTTOM_HORIZONTAL), Reversed(BOTTOM_CORNER),
       Reversed(BOTTOM_VERTICAL), NONE_,
       NONE_, BOTTOM_VERTICAL, BOTTOM_CORNER, BOTTOM_HORIZONTAL,
       Reversed(BOTTOM_HORIZONTAL), Reversed(BOTTOM_CORNER),
       Reversed(BOTTOM_VERTICAL), NONE_ >>

GEOMETRY_LOOKUP ==
    [t \in 1 .. Len(GEOMETRY_LOOKUP_TOP) |->
        GEOMETRY_LOOKUP_TOP[t] \o GEOMETRY_LOOKUP_BOTTOM[t]]

\* squares split like \
TOP_CORNER_ == <<2, 1>>
TOP_HORIZONTAL_ == <<1, 4>>
TOP_VERTICAL_ == <<2, 4>>
BOTTOM_CORNER_ == <<0, 3>>
BOTTOM_VERTICAL_ == <<4, 0>>
BOTTOM_HORIZONTAL_ == <<4, 3>>

GEOMETRY_LOOKUP_TOP_ ==
    << NONE_, NONE_, TOP_HORIZONTAL_, TOP_HORIZONTAL_,
       TOP_CORNER_, TOP_CORNER_, TOP_VERTICAL_, TOP_VERTICAL_,
       Reversed(TOP_VERTICAL_), Reversed(TOP_VERTICAL_),
       Reversed(TOP_CORNER_), Reversed(TOP_CORNER_),
       Reversed(TOP_HORIZONTAL_), Reversed(TOP_HORIZONTAL_), NONE_, NONE_ >>

GEOMETRY_LOOKUP_BOTTOM_ ==
    << NONE_, BOTTOM_CORNER_, BOTTOM_VERTICAL_, BOTTOM_HORIZONTAL_,
       NONE_, BOTTOM_CORNER_, BOTTOM_VERTICAL_, BOTTOM_HORIZONTAL_,
       Reversed(BOTTOM_HORIZONTAL_), Reversed(BOTTOM_VERTICAL_),
       Reversed(BOTTOM_CORNER_), NONE_,
       Reversed(BOTTOM_HORIZONTAL_), Reversed(BOTTOM_VERTICAL_),
       Reversed(BOTTOM_CORNER_), NONE_ >>

GEOMETRY_LOOKUP_REVERSED ==
    [t \in 1 .. Len(GEOMETRY_LOOKUP_TOP_) |->
        GEOMETRY_LOOKUP_TOP_[t] \o GEOMETRY_LOOKUP_BOTTOM_[t]]

\* MarchingNumpy/MarchingSquares.py: {5: [[False, True, 16]], 10: [[True, True, 17]]},
\* each entry [test_values, test_selection, resolved_type]
NUMPY_SQUARE_AMBIGUITY_RESOLUTION ==
    << <<5, << <<FALSE, TRUE, 16>> >> >>, <<10, << <<TRUE, TRUE, 17>> >> >> >>

\* {5: 16, 10: 17}, in the order the dict is iterated
SQUARE_AMBIGUITY_RESOLUTION == << <<5, 16>>, <<10, 17>> >>

(***************************************************************************)
(* The bindings made by marching_factory.                                  *)
(***************************************************************************)
marching_squares ==
    [nD |-> 2, nEdges |-> 2,
     intersect_slice_indexes |-> SQUARES_INTERSECT_SLICE_INDEXES,
     volume_type_slices |-> VOLUME_TYPE_SLICES,
     ambiguity_resolution |-> TRUE,
     geometry_array |-> SQUARES_GEOMETRY_LOOKUP,
     edge_direction |-> SQUARES_EDGE_DIRECTION,
     edge_delta |-> SQUARES_EDGE_DELTA]

marching_triangles ==
    [nD |-> 2, nEdges |-> 3,
     intersect_slice_indexes |-> INTERSECT_SLICE_INDEXES,
     volume_type_slices |-> VOLUME_TYPE_SLICES,
     ambiguity_resolution |-> FALSE,
     geometry_array |-> GEOMETRY_LOOKUP,
     edge_direction |-> EDGE_DIRECTION,
     edge_delta |-> EDGE_DELTA]

marching_triangles_reversed ==
    [nD |-> 2, nEdges |-> 3,
     intersect_slice_indexes |-> INTERSECT_SLICE_INDEXES_REVERSED,
     volume_type_slices |-> VOLUME_TYPE_SLICES,
     ambiguity_resolution |-> FALSE,
     geometry_array |-> GEOMETRY_LOOKUP_REVERSED,
     edge_direction |-> EDGE_DIRECTION,
     edge_delta |-> EDGE_DELTA]

Operations == {"marching_squares", "marching_triangles", "marching_triangles_reversed"}

Bound(operation) ==
    CASE operation = "marching_squares" -> marching_squares
      [] operation = "marching_triangles" -> marching_triangles
      [] operation = "marching_triangles_reversed" -> marching_triangles_reversed

(***************************************************************************)
(* Stage operators.                                                        *)
(***************************************************************************)
\* a marching that leaves the level out
SubtractLevelSkipped(vol, lev) == vol

\* volume - level, elementwise
SubtractLevel(vol, lev) == [p \in DOMAIN vol |-> vol[p] - lev]

\* a test that leaves out the samples equal to the level
VolumeTestStrict(vol) == [p \in DOMAIN vol |-> vol[p] > 0]

\* volume_test = (volume >= 0)
VolumeTest(vol) == [p \in DOMAIN vol |-> vol[p] >= 0]

\* a size_multiplier without the final "*= nEdges"
SizeMultiplierUnscaled(shape, nD, nEdges) ==
    [a \in 1 .. nD |->
        IF a < nD THEN Prod(SubSeq(shape, a + 1, Len(shape))) ELSE 1]

\* size_multiplier = ones(nD); [: nD - 1] = reversed cumprod of the shape; *= nEdges
SizeMultiplier(shape, nD, nEdges) ==
    [a \in 1 .. nD |->
        (IF a < nD THEN Prod(SubSeq(shape, a + 1, Len(shape))) ELSE 1) * nEdges]

\* a mask taken with "or" in place of "!="
CrossingEither(vt, n_slices, nplus1_slices, p) ==
    vt[SliceBase(n_slices, p)] \/ vt[SliceBase(nplus1_slices, p)]

\* volume_test[n_slices] != volume_test[nplus1_slices], at position p of the slices
Crossing(vt, n_slices, nplus1_slices, p) ==
    vt[SliceBase(n_slices, p)] # vt[SliceBase(nplus1_slices, p)]

vector_from_slices(from_slices, to_slices, absolute) ==
    [a \in 1 .. Len(from_slices) |->
        IF absolute THEN Abs(to_slices[a].start - from_slices[a].start)
        ELSE to_slices[a].start - from_slices[a].start]

\* a LINEAR offset with the denominator the wrong way round
InterpolatedOffsetSwapped(interpolation, n_value, nplus1_value) ==
    CASE interpolation = "HALFWAY" -> Rat(1, 2)
      [] interpolation = "LINEAR" -> Rat(n_value, nplus1_value - n_value)
      [] interpolation = "COSINE" ->
            ArccosOverPi(Rat(nplus1_value + n_value, nplus1_value - n_value))

\* the interpolated offset of one crossing
InterpolatedOffset(interpolation, n_value, nplus1_value) ==
    CASE interpolation = "HALFWAY" -> Rat(1, 2)
      [] interpolation = "LINEAR" -> Rat(n_value, n_value - nplus1_value)
      [] interpolation = "COSINE" ->
            ArccosOverPi(Rat(nplus1_value + n_value, nplus1_value - n_value))

\* the intersects and their ids found along slice pair i (1-based)
IntersectsAlong(slice_indexes, i, vol, shape, size_multiplier, vt, interpolation) ==
    LET n_slices == slice_indexes[i][1]
        nplus1_slices == slice_indexes[i][2]
        IsCrossing(p) == Crossing(vt, n_slices, nplus1_slices, p)
        intersect_indices ==
            SelectSeq(RowMajor(SliceShape(shape, n_slices)), IsCrossing)
        slice_vector == vector_from_slices(n_slices, nplus1_slices, TRUE)
        offset(p) == InterpolatedOffset(interpolation,
                                        vol[SliceBase(n_slices, p)],
                                        vol[SliceBase(nplus1_slices, p)])
    IN  [intersects |->
            [k \in 1 .. Len(intersect_indices) |->
                [a \in 1 .. Len(shape) |->
                    AddScaled(intersect_indices[k][a],
                              offset(intersect_indices[k]), slice_vector[a])]],
         intersect_ids |->
            [k \in 1 .. Len(intersect_indices) |->
                Dot(intersect_indices[k], size_multiplier) + (i - 1)]]

RECURSIVE FindFrom(_, _, _, _, _, _, _)
FindFrom(slice_indexes, i, vol, shape, size_multiplier, vt, interpolation) ==
    IF i > Len(slice_indexes) THEN [intersects |-> <<>>, intersect_ids |-> <<>>]
    ELSE LET here == IntersectsAlong(slice_indexes, i, vol, shape,
                                     size_multiplier, vt, interpolation)
             rest == FindFrom(slice_indexes, i + 1, vol, shape,
                              size_multiplier, vt, interpolation)
         IN  [intersects |-> here.intersects \o rest.intersects,
              intersect_ids |-> here.intersect_ids \o rest.intersect_ids]

\* find_intersects(slice_indexes, volume, size_multiplier, volume_test, interpolation)
find_intersects(slice_indexes, vol, shape, size_multiplier, vt, interpolation) ==
    FindFrom(slice_indexes, 1, vol, shape, size_multiplier, vt, interpolation)

\* the bits of the corners one place too high (1 << i in place of 1 << (i - 1))
RECURSIVE TypeBitsShifted(_, _, _, _)
TypeBitsShifted(vt, slices, i, cell) ==
    IF i > Len(slices) THEN 0
    ELSE (IF vt[SliceBase(slices[i], cell)] THEN 2 ^ i ELSE 0)
         + TypeBitsShifted(vt, slices, i + 1, cell)

RECURSIVE TypeBits(_, _, _, _)
TypeBits(vt, slices, i, cell) ==
    IF i > Len(slices) THEN 0
    ELSE (IF vt[SliceBase(slices[i], cell)] THEN 2 ^ (i - 1) ELSE 0)
         + TypeBits(vt, slices, i + 1, cell)

\* volume_types(volume_test, slices)
volume_types(vt, shape, slices) ==
    [cell \in Positions([a \in 1 .. Len(shape) |-> shape[a] - 1]) |->
        TypeBits(vt, slices, 1, cell)]

\* a face test taken with "<=" in place of "<"
interpolate_face_values_inclusive(vol, cell) ==
    vol[cell] * vol[VecAdd(cell, <<1, 1>>)]
        <= vol[VecAdd(cell, <<0, 1>>)] * vol[VecAdd(cell, <<1, 0>>)]

\* volume[:-1, :-1] * volume[1:, 1:] < volume[:-1, 1:] * volume[1:, :-1], at a cell
interpolate_face_values(vol, cell) ==
    vol[cell] * vol[VecAdd(cell, <<1, 1>>)]
        < vol[VecAdd(cell, <<0, 1>>)] * vol[VecAdd(cell, <<1, 0>>)]

RECURSIVE ResolveFrom(_, _, _)
ResolveFrom(types, vol, k) ==
    IF k > Len(SQUARE_AMBIGUITY_RESOLUTION) THEN types
    ELSE LET ambiguous_type == SQUARE_AMBIGUITY_RESOLUTION[k][1]
             resolved_type == SQUARE_AMBIGUITY_RESOLUTION[k][2]
         IN  ResolveFrom(
                 [cell \in DOMAIN types |->
                     IF types[cell] = ambiguous_type
                        /\ interpolate_face_values(vol, cell)
                     THEN resolved_type ELSE types[cell]],
                 vol, k + 1)

\* ambiguity_resolution(types, volume) of marching_squares
ambiguity_resolution(types, vol) == ResolveFrom(types, vol, 1)

\* interpolate_face_values(volume) of MarchingNumpy/MarchingSquares.py: one test
\* value per cell, in an array with a last axis of length one
numpy_interpolate_face_values(vol, cells) ==
    [cell \in cells |-> <<interpolate_face_values(vol, cell)>>]

\* a placing that looks at the face values only, whatever test_values says
RECURSIVE PlaceFromIgnoringTest(_, _, _, _)
PlaceFromIgnoringTest(new_values, interpolated_face_values, resolutions, r) ==
    IF r > Len(resolutions) THEN new_values
    ELSE PlaceFromIgnoringTest(
             [cell \in DOMAIN new_values |->
                 IF \A i \in 1 .. Len(interpolated_face_values[cell]) :
                        interpolated_face_values[cell][i]
                 THEN resolutions[r][3] ELSE new_values[cell]],
             interpolated_face_values, resolutions, r + 1)

\* for [test_values, test_selection, resolved_type] in resolutions:
\*     numpy.place(new_values, (interpolated_face_values[filter] == test_values)
\*                                 .all(axis=1, where=test_selection), resolved_type)
RECURSIVE PlaceFrom(_, _, _, _)
PlaceFrom(new_values, interpolated_face_values, resolutions, r) ==
    IF r > Len(resolutions) THEN new_values
    ELSE LET test_values == resolutions[r][1]
             test_selection == resolutions[r][2]
             resolved_type == resolutions[r][3]
         IN  PlaceFrom(
                 [cell \in DOMAIN new_values |->
                     IF \A i \in 1 .. Len(interpolated_face_values[cell]) :
                            test_selection
                                => interpolated_face_values[cell][i] = test_values
                     THEN resolved_type ELSE new_values[cell]],
                 interpolated_face_values, resolutions, r + 1)

\* the loop of resolve_ambiguous_types over the entries of the dict, from entry k
RECURSIVE ResolveTypesFrom(_, _, _, _)
ResolveTypesFrom(types, interpolated_face_values, resolution, k) ==
    IF k > Len(resolution) THEN types
    ELSE LET ambiguous_type == resolution[k][1]
             filter == {cell \in DOMAIN types : types[cell] = ambiguous_type}
             new_values == PlaceFrom([cell \in filter |-> ambiguous_type],
                                     interpolated_face_values, resolution[k][2], 1)
         IN  ResolveTypesFrom(
                 [cell \in DOMAIN types |->
                     IF cell \in filter THEN new_values[cell] ELSE types[cell]],
                 interpolated_face_values, resolution, k + 1)

\* resolve_ambiguous_types(types, interpolated_face_values, ambiguity_resolution)
resolve_ambiguous_types(types, interpolated_face_values, resolution) ==
    ResolveTypesFrom(types, interpolated_face_values, resolution, 1)

\* the ambiguity stage of the MarchingNumpy binding of marching_squares: the
\* factory hands the values of ambiguity_interpolater(volume) and the dict
\* ambiguity_resolution to resolve_ambiguous_types
numpy_ambiguity_resolution(types, vol) ==
    resolve_ambiguous_types(types, numpy_interpolate_face_values(vol, DOMAIN types),
                            NUMPY_SQUARE_AMBIGUITY_RESOLUTION)

\* a row of look_up_geometry with the entries of the slot taken last to first
NumPyVertexIdsReversed(row, i, nV, cell, edge_delta, edge_direction, size_multiplier) ==
    [j \in 1 .. nV |->
        LET e == row[i + nV + 1 - j]
        IN  Dot(size_multiplier, VecAdd(At(edge_delta, e), cell))
            + At(edge_direction, e)]

\* one row of look_up_geometry (MarchingNumPy): the nV vertex ids of the simplex
\* stored at slot i of the cell's table row,
\* (size_multiplier * (edge_delta[e] + corner)).sum() + edge_direction[e]
NumPyVertexIds(row, i, nV, cell, edge_delta, edge_direction, size_multiplier) ==
    [j \in 1 .. nV |->
        LET e == row[i + j]
        IN  Dot(size_multiplier, VecAdd(At(edge_delta, e), cell))
            + At(edge_direction, e)]

\* a row from an offset lookup that leaves the edge direction out
CuPyVertexIdsWithoutDirection(row, i, nV, cell, edge_delta, edge_direction, size_multiplier) ==
    LET vertex_id_offset_lookup ==
            [e \in 1 .. Len(edge_delta) |-> Dot(edge_delta[e], size_multiplier)]
        corner_id == Dot(cell, size_multiplier)
    IN  [j \in 1 .. nV |-> corner_id + At(vertex_id_offset_lookup, row[i + j])]

\* the same row in MarchingCuPy: corner_id + vertex_id_offset_lookup[e]
CuPyVertexIds(row, i, nV, cell, edge_delta, edge_direction, size_multiplier) ==
    LET vertex_id_offset_lookup ==
            [e \in 1 .. Len(edge_delta) |->
                Dot(edge_delta[e], size_multiplier) + edge_direction[e]]
        corner_id == Dot(cell, size_multiplier)
    IN  [j \in 1 .. nV |-> corner_id + At(vertex_id_offset_lookup, row[i + j])]

\* the loop of look_up_geometry from slot i (0-based column of the table) on:
\* it stops at the first slot in which no cell has a simplex
RECURSIVE LookUpFrom(_, _, _, _, _, _, _, _)
LookUpFrom(i, types, tshape, geometry_array, edge_delta, edge_direction, size_multiplier, backend) ==
    LET nV == Len(edge_delta[1])
        width == Len(geometry_array[1])
        geometry_lookups(cell) == At(geometry_array, types[cell])
        HasSimplex(cell) == geometry_lookups(cell)[i + 1] # -1
        geometry_lookups_filter == SelectSeq(RowMajor(tshape), HasSimplex)
        Ids(cell) ==
            IF backend = "CuPy"
            THEN CuPyVertexIds(geometry_lookups(cell), i, nV, cell,
                               edge_delta, edge_direction, size_multiplier)
            ELSE NumPyVertexIds(geometry_lookups(cell), i, nV, cell,
                                edge_delta, edge_direction, size_multiplier)
    IN  IF i >= width \/ geometry_lookups_filter = <<>> THEN <<>>
        ELSE [k \in 1 .. Len(geometry_lookups_filter) |->
                 Ids(geometry_lookups_filter[k])]
             \o LookUpFrom(i + nV, types, tshape, geometry_array, edge_delta,
                           edge_direction, size_multiplier, backend)

\* look_up_geometry(types, geometry_array, edge_delta, edge_direction, size_multiplier)
look_up_geometry(types, tshape, geometry_array, edge_delta, edge_direction, size_multiplier, backend) ==
    LookUpFrom(0, types, tshape, geometry_array, edge_delta, edge_direction,
               size_multiplier, backend)

RECURSIVE SeqMax(_)
SeqMax(s) == IF Len(s) = 1 THEN s[1]
             ELSE LET m == SeqMax(Tail(s)) IN IF s[1] > m THEN s[1] ELSE m

\* a lookup filled with enumerate(ordered_ids, 1)
RECURSIVE ScatterOneBased(_, _, _)
ScatterOneBased(numpy_lookup, ordered_ids, k) ==
    IF k > Len(ordered_ids) THEN numpy_lookup
    ELSE ScatterOneBased([numpy_lookup EXCEPT ![ordered_ids[k]] = k],
                         ordered_ids, k + 1)

\* numpy_lookup after "for i, ordered_id in enumerate(ordered_ids):
\*                         numpy_lookup[ordered_id] = i"
RECURSIVE Scatter(_, _, _)
Scatter(numpy_lookup, ordered_ids, k) ==
    IF k > Len(ordered_ids) THEN numpy_lookup
    ELSE Scatter([numpy_lookup EXCEPT ![ordered_ids[k]] = k - 1], ordered_ids, k + 1)

\* ndarray_numpy_ordered_lookup(array, ordered_ids)
ndarray_numpy_ordered_lookup(array, ordered_ids) ==
    IF ordered_ids = <<>>
    THEN [error |-> "ValueError", value |-> <<>>]     \* max() of an empty array
    ELSE LET top == SeqMax(ordered_ids)
             numpy_lookup == Scatter([v \in 0 .. top |-> 0], ordered_ids, 1)
         IN  IF \E r \in 1 .. Len(array) : \E j \in 1 .. Len(array[r]) :
                    array[r][j] > top
             THEN [error |-> "IndexError", value |-> <<>>]
             ELSE [error |-> "none",
                   value |-> [r \in 1 .. Len(array) |->
                                 [j \in 1 .. Len(array[r]) |->
                                     numpy_lookup[array[r][j]]]]]

\* a convert_indexes without the early return for an empty array
convert_indexes_unguarded(array, ordered_ids) ==
    ndarray_numpy_ordered_lookup(array, ordered_ids)

\* convert_indexes(array, ordered_ids, method="NUMPY")
convert_indexes(array, ordered_ids) ==
    IF array = <<>> THEN [error |-> "none", value |-> array]
    ELSE ndarray_numpy_ordered_lookup(array, ordered_ids)

\* a dictionary filled with enumerate(ordered_ids, 1)
DictOfOneBased(ordered_ids) ==
    [id \in {ordered_ids[k] : k \in 1 .. Len(ordered_ids)} |->
        CHOOSE k \in 1 .. Len(ordered_ids) :
            /\ ordered_ids[k] = id
            /\ \A later \in k + 1 .. Len(ordered_ids) : ordered_ids[later] # id]

\* {ordered_id: i for i, ordered_id in enumerate(ordered_ids)}: a later
\* occurrence of an id replaces an earlier one
DictOf(ordered_ids) ==
    [id \in {ordered_ids[k] : k \in 1 .. Len(ordered_ids)} |->
        (CHOOSE k \in 1 .. Len(ordered_ids) :
            /\ ordered_ids[k] = id
            /\ \A later \in k + 1 .. Len(ordered_ids) : ordered_ids[later] # id) - 1]

\* ndarray_dict_lookup(array, dictionary, dtype=numpy.uint64) without a default:
\* dictionary.get answers None for an absent key, and None does not convert to
\* the integer dtype
ndarray_dict_lookup(array, dictionary) ==
    IF \E r \in 1 .. Len(array) : \E j \in 1 .. Len(array[r]) :
           array[r][j] \notin DOMAIN dictionary
    THEN [error |-> "TypeError", value |-> <<>>]
    ELSE [error |-> "none",
          value |-> [r \in 1 .. Len(array) |->
                        [j \in 1 .. Len(array[r]) |-> dictionary[array[r][j]]]]]

\* ndarray_dict_ordered_lookup(array, ordered_ids, dtype=numpy.uint64)
ndarray_dict_ordered_lookup(array, ordered_ids) ==
    ndarray_dict_lookup(array, DictOf(ordered_ids))

\* convert_indexes(array, ordered_ids, method=method)
convert_indexes_method(array, ordered_ids, method_) ==
    IF array = <<>> THEN [error |-> "none", value |-> array]
    ELSE IF method_ = "NUMPY" THEN ndarray_numpy_ordered_lookup(array, ordered_ids)
    ELSE ndarray_dict_ordered_lookup(array, ordered_ids)

(***************************************************************************)
(* The marching cubes scripts of src/videos: the scalar loop of Video01    *)
(* (MarchingBasic.marching) and the staged array version of Video02        *)
(* (MarchingNumpy.marching).  Both import the tables of                    *)
(* LorensenLookUpTable; the tables below stand for that module.            *)
(***************************************************************************)
\* DirectionX, DirectionY, DirectionZ: the axis of an edge
DirectionX == 0
DirectionY == 1
DirectionZ == 2

\* the corner the test of bit i of a cube's type is taken at
LORENSEN_CORNERS ==
    << <<0, 0, 0>>, <<1, 0, 0>>, <<1, 1, 0>>, <<0, 1, 0>>,
       <<0, 0, 1>>, <<1, 0, 1>>, <<1, 1, 1>>, <<0, 1, 1>> >>

\* EDGE_DELTA of the twelve edges of a cube: edge e joins the corner at
\* LORENSEN_EDGE_DELTA[e + 1] to its neighbour along LORENSEN_EDGE_DIRECTION[e + 1]
LORENSEN_EDGE_DELTA ==
    << <<0, 0, 0>>, <<1, 0, 0>>, <<0, 1, 0>>, <<0, 0, 0>>,
       <<0, 0, 1>>, <<1, 0, 1>>, <<0, 1, 1>>, <<0, 0, 1>>,
       <<0, 0, 0>>, <<1, 0, 0>>, <<1, 1, 0>>, <<0, 1, 0>> >>

\* EDGE_DIRECTION of the twelve edges of a cube
LORENSEN_EDGE_DIRECTION ==
    <<DirectionX, DirectionY, DirectionX, DirectionY,
      DirectionX, DirectionY, DirectionX, DirectionY,
      DirectionZ, DirectionZ, DirectionZ, DirectionZ>>

\* the unit step along a direction
UnitStep(direction) == [a \in 1 .. 3 |-> IF a = direction + 1 THEN 1 ELSE 0]

\* the bit of a corner of a cube in the cube's type
CubeCornerBit(corner) == CHOOSE i \in 0 .. 7 : LORENSEN_CORNERS[i + 1] = corner

\* the edges of a cube of type t whose two ends test differently, ascending
LorensenCrossedEdges(t) ==
    SelectSeq([e \in 1 .. 12 |-> e - 1],
              LAMBDA e :
                  LET from == LORENSEN_EDGE_DELTA[e + 1]
                      to == VecAdd(from, UnitStep(LORENSEN_EDGE_DIRECTION[e + 1]))
                  IN  ((t \div (2 ^ (CubeCornerBit(from)))) % 2) # ((t \div (2 ^ (CubeCornerBit(to)))) % 2))

\* the number of entries of a row of the cube table
LorensenRowLength == 30

\* a row of the cube table: triangles over the crossed edges of the type, each a
\* triple of edge numbers, the triangles first and -1 in every entry after them
LorensenRow(t) ==
    LET crossed == LorensenCrossedEdges(t)
        nTriangles == IF Len(crossed) < 3 THEN 0 ELSE Len(crossed) - 2
    IN  [j \in 1 .. LorensenRowLength |->
            IF j > 3 * nTriangles THEN -1
            ELSE IF (j - 1) % 3 = 0 THEN crossed[1]
            ELSE crossed[((j - 1) \div 3) + 1 + ((j - 1) % 3)]]

\* GEOMETRY_LOOKUP of the cubes: one row for each of the 256 types
LORENSEN_GEOMETRY_LOOKUP == [t \in 1 .. 256 |-> LorensenRow(t - 1)]

\* interpolate(a, b, level) of both scripts
interpolate(a, b, lev) == Rat(a - lev, (a - lev) - (b - lev))

\* calculate_vertex_id(x, y, z, direction) with the offsets of x first
calculate_vertex_id_swapped(x, y, z, direction, dimX, dimXY) ==
    (x * dimXY + y * dimX + z) * 3 + direction

\* calculate_vertex_id(x, y, z, direction) of the scalar loop
calculate_vertex_id(x, y, z, direction, dimX, dimXY) ==
    (x + y * dimX + z * dimXY) * 3 + direction

\* the positions in the order of the loops for z, for y, for x
LoopOrder(dimX, dimY, dimZ) ==
    [k \in 1 .. dimX * dimY * dimZ |->
        <<(k - 1) % dimX, ((k - 1) \div dimX) % dimY, (k - 1) \div (dimX * dimY)>>]

\* the vertex of an edge from p along a direction: p with delta added on that axis
VertexAlong(vol, lev, p, direction) ==
    LET delta == interpolate(vol[p], vol[VecAdd(p, UnitStep(direction))], lev)
    IN  [a \in 1 .. 3 |-> AddScaled(p[a], delta, UnitStep(direction)[a])]

\* volume_type of the cube at p: bit i set where the test holds at corner i
CubeType(vol, lev, p) ==
    LET bit(i) == IF vol[VecAdd(p, LORENSEN_CORNERS[i + 1])] >= lev THEN 2 ^ i ELSE 0
    IN  bit(0) + bit(1) + bit(2) + bit(3) + bit(4) + bit(5) + bit(6) + bit(7)

\* the triangles of one cube in the scalar loop: slot after slot of the row up to
\* the first slot that holds the sentinel
RECURSIVE BasicTrianglesFrom(_, _, _, _, _)
BasicTrianglesFrom(lookup, i, p, dimX, dimXY) ==
    IF i > Len(lookup) THEN <<>>
    ELSE IF lookup[i] < 0 THEN <<>>
    ELSE LET edge_to_vertex_id(edge_number) ==
                 LET d == LORENSEN_EDGE_DELTA[edge_number + 1]
                 IN  calculate_vertex_id(p[1] + d[1], p[2] + d[2], p[3] + d[3],
                                         LORENSEN_EDGE_DIRECTION[edge_number + 1], dimX, dimXY)
         IN  << <<edge_to_vertex_id(lookup[i]), edge_to_vertex_id(lookup[i + 1]),
                  edge_to_vertex_id(lookup[i + 2])>> >>
             \o BasicTrianglesFrom(lookup, i + 3, p, dimX, dimXY)

\* one pass of the body of the loops of the scalar script, at position p
BasicAt(vol, shape_, lev, p) ==
    LET dimX == shape_[1]
        dimXY == shape_[1] * shape_[2]
        test(q) == vol[q] >= lev
        found(direction) ==
            IF /\ p[direction + 1] < shape_[direction + 1] - 1
               /\ test(p) # test(VecAdd(p, UnitStep(direction)))
            THEN << [id |-> calculate_vertex_id(p[1], p[2], p[3], direction, dimX, dimXY),
                     vertex |-> VertexAlong(vol, lev, p, direction)] >>
            ELSE <<>>
    IN  [found |-> found(DirectionX) \o found(DirectionY) \o found(DirectionZ),
         triangle_ids |->
            IF \E a \in 1 .. 3 : p[a] = shape_[a] - 1 THEN <<>>
            ELSE BasicTrianglesFrom(LORENSEN_GEOMETRY_LOOKUP[CubeType(vol, lev, p) + 1],
                                    1, p, dimX, dimXY)]

RECURSIVE BasicFrom(_, _, _, _, _)
BasicFrom(vol, shape_, lev, order, k) ==
    IF k > Len(order) THEN [found |-> <<>>, triangle_ids |-> <<>>]
    ELSE LET here == BasicAt(vol, shape_, lev, order[k])
             rest == BasicFrom(vol, shape_, lev, order, k + 1)
         IN  [found |-> here.found \o rest.found,
              triangle_ids |-> here.triangle_ids \o rest.triangle_ids]

\* order_of_ids = {id: order for order, id in enumerate(vertex_ids)} and
\* [order_of_ids[c] for c in triangle_corners]: an absent id is a KeyError
ConvertByOrder(found, triangle_ids) ==
    LET vertex_ids_ == [k \in 1 .. Len(found) |-> found[k].id]
        order_of_ids == DictOf(vertex_ids_)
        absent == \E r \in 1 .. Len(triangle_ids) : \E j \in 1 .. 3 :
                      triangle_ids[r][j] \notin DOMAIN order_of_ids
    IN  [error |-> IF absent THEN "KeyError" ELSE "none",
         vertices |-> [k \in 1 .. Len(found) |-> found[k].vertex],
         vertex_ids |-> vertex_ids_,
         triangle_ids |-> triangle_ids,
         triangles |-> IF absent THEN <<>>
                       ELSE [r \in 1 .. Len(triangle_ids) |->
                                [j \in 1 .. 3 |-> order_of_ids[triangle_ids[r][j]]]]]

\* marching(volume, level) of Video01/MarchingBasic.py
MarchingBasic_marching(vol, shape_, lev) ==
    LET looped == BasicFrom(vol, shape_, lev, LoopOrder(shape_[1], shape_[2], shape_[3]), 1)
    IN  ConvertByOrder(looped.found, looped.triangle_ids)

\* the vertices of one direction of the array script: numpy.nonzero of the
\* unequal neighbours along the direction, in row-major order
NumpyFound(vol, shape_, lev, size_multiplier_, direction) ==
    LET pairs == RowMajor([a \in 1 .. 3 |-> shape_[a] - UnitStep(direction)[a]])
        filt == SelectSeq(pairs,
                    LAMBDA p : (vol[p] >= lev) # (vol[VecAdd(p, UnitStep(direction))] >= lev))
    IN  [k \in 1 .. Len(filt) |->
            [id |-> Dot(filt[k], size_multiplier_) + direction,
             vertex |-> VertexAlong(vol, lev, filt[k], direction)]]

\* the triangles of the array script: slot after slot of the rows, each over the
\* cubes that hold a simplex in the slot, up to the first slot no cube holds
RECURSIVE NumpyTrianglesFrom(_, _, _, _)
NumpyTrianglesFrom(lookup, cells, i, size_multiplier_) ==
    IF i > LorensenRowLength THEN <<>>
    ELSE LET filt == SelectSeq(cells, LAMBDA p : lookup[p][i] >= 0)
             id(p, j) ==
                 LET edge_info == lookup[p][j]
                 IN  Dot(VecAdd(p, LORENSEN_EDGE_DELTA[edge_info + 1]), size_multiplier_)
                     + LORENSEN_EDGE_DIRECTION[edge_info + 1]
         IN  IF filt = <<>> THEN <<>>
             ELSE [k \in 1 .. Len(filt) |->
                      <<id(filt[k], i), id(filt[k], i + 1), id(filt[k], i + 2)>>]
                  \o NumpyTrianglesFrom(lookup, cells, i + 3, size_multiplier_)

\* marching(volume, level) of Video02/MarchingNumpy.py
MarchingNumpy_marching(vol, shape_, lev) ==
    LET size_multiplier_ == <<3, shape_[1] * 3, shape_[1] * shape_[2] * 3>>
        found == NumpyFound(vol, shape_, lev, size_multiplier_, DirectionX)
                 \o NumpyFound(vol, shape_, lev, size_multiplier_, DirectionY)
                 \o NumpyFound(vol, shape_, lev, size_multiplier_, DirectionZ)
        cells == RowMajor([a \in 1 .. 3 |-> shape_[a] - 1])
        lookup == [p \in SeqToSet(cells) |->
                       LORENSEN_GEOMETRY_LOOKUP[CubeType(vol, lev, p) + 1]]
    IN  ConvertByOrder(found, NumpyTrianglesFrom(lookup, cells, 1, size_multiplier_))

(***************************************************************************)
(* Checks and conversions of the arguments.                                *)
(***************************************************************************)
\* INTERPOLATION_VALUES
Interpolations == {"LINEAR", "HALFWAY", "COSINE"}

\* a.shape of volume[tuple([slice(None, None, step_size)] * nD)]
StridedShape(shape_, nD, step_size) ==
    [a \in 1 .. Len(shape_) |->
        IF a <= nD THEN (shape_[a] + step_size - 1) \div step_size ELSE shape_[a]]

\* a striding that takes every step_size-th sample along the first axis only
StridedFirstAxis(vol, shape_, nD, step_size) ==
    [p \in Positions(StridedShape(shape_, nD, step_size)) |->
        vol[[a \in 1 .. Len(p) |-> IF a = 1 THEN p[a] * step_size ELSE p[a]]]]

\* volume[tuple([slice(None, None, step_size)] * nD)], for a volume of nD or more axes
Strided(vol, shape_, nD, step_size) ==
    [p \in Positions(StridedShape(shape_, nD, step_size)) |->
        vol[[a \in 1 .. Len(p) |-> IF a <= nD THEN p[a] * step_size ELSE p[a]]]]

\* an assert_nd_array that tests the first axis only
assert_nd_array_first(shape_, nD, minsize) ==
    /\ Len(shape_) = nD
    /\ shape_[1] >= minsize

\* assert_nd_array(a, nD, minsize) passes
assert_nd_array(shape_, nD, minsize) ==
    /\ Len(shape_) = nD
    /\ \A n \in 1 .. nD : shape_[n] >= minsize

\* a conversion that leaves the spelling as it is
UpperSkipped(string) == string

\* str(interpolation).upper(), on the spellings a call is made with
Upper(string) ==
    CASE string \in {"LINEAR", "linear", "Linear"} -> "LINEAR"
      [] string \in {"HALFWAY", "halfway", "HalfWay"} -> "HALFWAY"
      [] string \in {"COSINE", "cosine", "Cosine"} -> "COSINE"
      [] string \in {"CUBIC", "cubic"} -> "CUBIC"
      [] string = "" -> ""

\* numpy.iinfo(dtype).max
iinfo_max(dtype_) ==
    CASE dtype_ = "int8" -> 127
      [] dtype_ = "uint8" -> 255
      [] dtype_ = "int16" -> 32767
      [] dtype_ = "uint16" -> 65535

\* checks that compare the shape of a supplied volume_test at every level
FindIntersectsRejectionAnyLevel(shape_, level_, supplied_test, interpolation_) ==
    IF ~(Prod(shape_) > 0) THEN "ValueError"
    ELSE IF supplied_test.supplied /\ supplied_test.shape # shape_ THEN "ValueError"
    ELSE IF Upper(interpolation_) \notin Interpolations THEN "ValueError"
    ELSE "none"

\* the exception the argument checks of find_intersects raise, or "none"
FindIntersectsRejection(shape_, level_, supplied_test, interpolation_) ==
    IF ~(Prod(shape_) > 0) THEN "ValueError"
    ELSE IF supplied_test.supplied /\ level_ = 0 /\ supplied_test.shape # shape_
    THEN "ValueError"
    ELSE IF Upper(interpolation_) \notin Interpolations THEN "ValueError"
    ELSE "none"

\* the exception the checks of volume_types raise, or "none"
VolumeTypesRejection(test_shape, slices, dtype_) ==
    IF ~assert_nd_array(test_shape, Len(slices[1]), 1) THEN "ValueError"
    ELSE IF 2 ^ Len(slices) > iinfo_max(dtype_) THEN "TypeError"
    ELSE "none"

\* a reading of the step size that resamples by its magnitude
ResamplesByMagnitude(step_size_) == Abs(step_size_) > 1

\* if step_size > 1: the volume is resampled for a step size above one only
Resamples(step_size_) == step_size_ > 1

\* the exception marching raises before any stage has produced an array, or "none":
\* the striding indexes nD axes; assert_nd_array(volume, nD, 2); find_intersects
\* checks the interpolation
Rejection(binding, shape_, step_size_, interpolation_) ==
    IF Resamples(step_size_) /\ Len(shape_) < binding.nD THEN "IndexError"
    ELSE IF ~assert_nd_array(IF Resamples(step_size_)
                             THEN StridedShape(shape_, binding.nD, step_size_)
                             ELSE shape_, binding.nD, 2)
    THEN "ValueError"
    ELSE IF Upper(interpolation_) \notin Interpolations THEN "ValueError"
    ELSE "none"

(***************************************************************************)
(* The inputs of a call.                                                   *)
(***************************************************************************)
Vals == (-1) .. MaxVal
Levels == 0 .. MaxLevel
\* a single cell takes every value and every interpolation; two cells in a row or
\* in a column take a sign or a tie, a 3 x 3 grid of four cells the two signs,
\* both under the default interpolation
CoarseVals == {-1, 0, 1}
Signs == {-1, 1}
CellShapes == {<<2, 2>>}
StripShapes == {<<2, 3>>, <<3, 2>>}
GridShapes == {<<3, 3>>}
Shapes == CellShapes \cup StripShapes \cup GridShapes
ValuesOf(shape_) ==
    IF shape_ \in CellShapes THEN Vals
    ELSE IF shape_ \in StripShapes THEN CoarseVals ELSE Signs
InterpolationsOf(shape_) ==
    IF shape_ \in CellShapes THEN Interpolations ELSE {"LINEAR"}

VolumesOf(shape_, values) == [Positions(shape_) -> values]

\* step sizes above 1
Steps == 2 .. MaxStep
\* volumes a step size is applied to: strips and grids of the two signs, and the
\* 4 x 4 field (i + j) - 3
SteppedShapes == StripShapes \cup GridShapes
RampShape == <<4, 4>>
Ramp == [p \in Positions(RampShape) |-> p[1] + p[2] - 3]
\* volumes of the wrong number of axes or with a single sample along an axis
MalformedShapes == {<<>>, <<3>>, <<1, 2>>, <<2, 1>>, <<2, 2, 2>>}
\* spellings of the interpolation argument
Spellings ==
    {"LINEAR", "linear", "Linear", "HALFWAY", "halfway", "HalfWay",
     "COSINE", "cosine", "Cosine", "CUBIC", "cubic", ""}

\* the volume_test argument of find_intersects and of volume_types
NoTest == [supplied |-> FALSE, shape |-> <<>>, test |-> <<>>]
Supplied(shape_, test) == [supplied |-> TRUE, shape |-> shape_, test |-> test]
AllTrue(shape_) == Supplied(shape_, [p \in Positions(shape_) |-> TRUE])
\* the volumes and tests of the direct calls of find_intersects
DirectShapes == {<<2, 2>>, <<0, 2>>, <<2, 0>>}
MismatchedShapes == {<<2, 3>>, <<3, 2>>, <<4>>}
\* the tests, slices and integer types of the direct calls of volume_types
TestShapes == {<<2, 2>>, <<2, 3>>, <<3, 2>>, <<2, 2, 2>>}
Dtypes == {"int8", "uint8", "int16", "uint16"}

(***************************************************************************)
(* State: the arguments of one call (of a bound marching callable, of      *)
(* find_intersects or of volume_types) and the arrays the call produces.   *)
(***************************************************************************)
VARIABLES
    pc,                 \* "call" before the call; after it "done" (marching
                        \* returned), "found" (find_intersects returned),
                        \* "typed" (volume_types returned), "converted"
                        \* (convert_indexes returned) or "raised"
    callee,             \* "marching", "find_intersects", "volume_types" or
                        \* "convert_indexes"
    operation,          \* the bound operation called, or whose slices are passed
    backend,            \* "NumPy" or "CuPy": the package of the factory
    arg_shape,          \* shape of the caller's volume
    arg_volume,         \* the caller's volume
    level,
    arg_interpolation,  \* the interpolation argument as the caller spelt it
    step_size,
    resolve_ambiguous,
    arg_volume_test,    \* the volume_test argument of a direct call
    arg_slices,         \* the slices argument of volume_types
    dtype,              \* the dtype argument of volume_types
    arg_array,          \* the array argument of convert_indexes
    arg_ordered_ids,    \* the ordered_ids argument of convert_indexes
    method,             \* the method argument of convert_indexes
    shape,              \* volume.shape after the striding
    volume,             \* volume after the striding
    interpolation,      \* str(interpolation).upper()
    zeroed,             \* volume - level
    volume_test,
    size_multiplier,
    vertices,           \* intersects of find_intersects
    vertex_ids,         \* intersect_ids of find_intersects
    classified,         \* types as returned by volume_types
    types,              \* types after the ambiguity stage
    edge_geometry,      \* geometry as returned by look_up_geometry
    geometry,           \* geometry as returned by the call
    error               \* "none" or the exception the call raised

args == <<callee, operation, backend, arg_shape, arg_volume, level, arg_interpolation, step_size, resolve_ambiguous, arg_volume_test, arg_slices, dtype, arg_array, arg_ordered_ids, method>>
locals == <<shape, volume, interpolation, zeroed, volume_test, size_multiplier, vertices, vertex_ids, classified, types, edge_geometry, geometry, error>>
vars == <<pc, args, locals>>

\* a call that is not one of convert_indexes
NoConversion == arg_array = <<>> /\ arg_ordered_ids = <<>> /\ method = "NUMPY"

\* a bound operation and the package it is bound in
BoundCall ==
    /\ operation \in Operations
    /\ backend \in {"NumPy", "CuPy"}
    /\ backend = "CuPy" => operation = "marching_squares"

\* marching(volume, level, interpolation=...) with the default step size
PlainCalls ==
    /\ callee = "marching" /\ BoundCall /\ NoConversion
    /\ arg_shape \in Shapes
    /\ arg_volume \in VolumesOf(arg_shape, ValuesOf(arg_shape))
    /\ level \in Levels
    /\ arg_interpolation \in InterpolationsOf(arg_shape)
    /\ step_size = 1
    /\ resolve_ambiguous \in BOOLEAN
    /\ arg_volume_test = NoTest /\ arg_slices = <<>> /\ dtype = "VolumeType"

\* marching(volume, level, step_size=s)
SteppedCalls ==
    /\ callee = "marching" /\ BoundCall /\ NoConversion
    /\ \/ /\ arg_shape \in SteppedShapes
          /\ arg_volume \in VolumesOf(arg_shape, Signs)
       \/ /\ arg_shape = RampShape
          /\ arg_volume = Ramp
    /\ level \in Levels
    /\ arg_interpolation = "LINEAR"
    /\ step_size \in Steps
    /\ resolve_ambiguous \in BOOLEAN
    /\ arg_volume_test = NoTest /\ arg_slices = <<>> /\ dtype = "VolumeType"

\* step sizes of one or less that are not the default
LowSteps == (-MaxStep) .. 0
\* volumes a step size of one or less is passed with: strips of the two signs, and
\* volumes with an axis too few or a single sample along an axis
LowSteppedShapes == StripShapes \cup {<<3>>, <<1, 2>>}

\* marching(volume, level, step_size=s) with s <= 0
LowSteppedCalls ==
    /\ callee = "marching" /\ BoundCall /\ NoConversion
    /\ arg_shape \in LowSteppedShapes
    /\ arg_volume \in VolumesOf(arg_shape, Signs)
    /\ level \in Levels
    /\ arg_interpolation = "LINEAR"
    /\ step_size \in LowSteps
    /\ resolve_ambiguous = TRUE
    /\ arg_volume_test = NoTest /\ arg_slices = <<>> /\ dtype = "VolumeType"

\* marching of a volume with the wrong number of axes or too few samples
MalformedCalls ==
    /\ callee = "marching" /\ BoundCall /\ NoConversion
    /\ arg_shape \in MalformedShapes
    /\ arg_volume \in VolumesOf(arg_shape, Signs)
    /\ level = 0
    /\ arg_interpolation = "LINEAR"
    /\ step_size \in {1} \cup Steps
    /\ resolve_ambiguous = TRUE
    /\ arg_volume_test = NoTest /\ arg_slices = <<>> /\ dtype = "VolumeType"

\* marching(volume, interpolation=spelling)
SpelledCalls ==
    /\ callee = "marching" /\ BoundCall /\ NoConversion
    /\ arg_shape \in CellShapes
    /\ arg_volume \in VolumesOf(arg_shape, Signs)
    /\ level = 0
    /\ arg_interpolation \in Spellings
    /\ step_size = 1
    /\ resolve_ambiguous = TRUE
    /\ arg_volume_test = NoTest /\ arg_slices = <<>> /\ dtype = "VolumeType"

\* find_intersects(slice_indexes, volume, size_multiplier, volume_test, level,
\* interpolation) called directly
FindIntersectsCalls ==
    /\ callee = "find_intersects" /\ NoConversion
    /\ operation \in Operations /\ backend = "CuPy"
    /\ arg_shape \in DirectShapes
    /\ arg_volume \in VolumesOf(arg_shape, Signs)
    /\ level \in Levels
    /\ arg_interpolation \in {"LINEAR", "HALFWAY", "CUBIC"}
    /\ step_size = 1
    /\ resolve_ambiguous = TRUE
    /\ arg_volume_test \in
           {NoTest, Supplied(arg_shape, VolumeTest(arg_volume)), AllTrue(arg_shape)}
               \cup {AllTrue(shape_) : shape_ \in MismatchedShapes}
    /\ arg_slices = <<>> /\ dtype = "VolumeType"

\* volume_types(volume_test, slices, dtype=dtype) called directly
VolumeTypesCalls ==
    /\ callee = "volume_types" /\ NoConversion
    /\ operation = "marching_squares" /\ backend = "CuPy"
    /\ arg_shape = <<>> /\ arg_volume = <<>>
    /\ level = 0
    /\ arg_interpolation = "LINEAR"
    /\ step_size = 1
    /\ resolve_ambiguous = TRUE
    /\ \E shape_ \in TestShapes :
           arg_volume_test \in {Supplied(shape_, test) : test \in [Positions(shape_) -> BOOLEAN]}
    /\ arg_slices \in {VOLUME_TYPE_SLICES, PROFILE_VOLUME_TYPE_SLICES}
    /\ dtype \in Dtypes

\* the arrays and id sequences of the direct calls of convert_indexes: no row, one
\* segment, two segments, or one triangle; up to three ids in any order, repeats
\* included
Ids == 0 .. MaxId
Arrays ==
    {<<>>} \cup {<<row>> : row \in [1 .. 2 -> Ids]}
           \cup {<<row, other>> : row \in [1 .. 2 -> 0 .. 2], other \in [1 .. 2 -> 0 .. 2]}
           \cup {<<row>> : row \in [1 .. 3 -> 0 .. 2]}
OrderedIds == UNION {[1 .. n -> Ids] : n \in 0 .. 3}
Methods == {"NUMPY", "DICT"}

\* convert_indexes(array, ordered_ids, method=method) called directly
ConvertIndexesCalls ==
    /\ callee = "convert_indexes"
    /\ operation = "marching_squares" /\ backend = "CuPy"
    /\ arg_shape = <<>> /\ arg_volume = <<>>
    /\ level = 0
    /\ arg_interpolation = "LINEAR"
    /\ step_size = 1
    /\ resolve_ambiguous = TRUE
    /\ arg_volume_test = NoTest /\ arg_slices = <<>> /\ dtype = "VolumeType"
    /\ arg_array \in Arrays
    /\ arg_ordered_ids \in OrderedIds
    /\ method \in Methods

\* the volumes of the marching cubes scripts: a single cube, two cubes side by
\* side along x, and a volume too thin along x to hold a cube
CubeShapes == {<<2, 2, 2>>, <<3, 2, 2>>, <<1, 2, 2>>}
Scripts == {"Video01", "Video02"}

\* marching(volume, level) of one of the two scripts of src/videos
VideoCalls ==
    /\ callee = "video_marching"
    /\ operation = "marching_squares" /\ backend \in Scripts
    /\ arg_shape \in CubeShapes
    /\ arg_volume \in VolumesOf(arg_shape, Signs)
    /\ level \in Levels
    /\ arg_interpolation = "LINEAR"
    /\ step_size = 1
    /\ resolve_ambiguous = TRUE
    /\ arg_volume_test = NoTest /\ arg_slices = <<>> /\ dtype = "VolumeType"
    /\ NoConversion

\* a call is about to run: no stage has produced an array
NothingRun ==
    /\ pc = "call"
    /\ shape = <<>> /\ volume = <<>> /\ interpolation = ""
    /\ zeroed = <<>> /\ volume_test = <<>> /\ size_multiplier = <<>>
    /\ vertices = <<>> /\ vertex_ids = <<>> /\ classified = <<>>
    /\ types = <<>> /\ edge_geometry = <<>> /\ geometry = <<>>
    /\ error = "none"

\* a call of a bound marching operation, of find_intersects or of volume_types
Init ==
    /\ NothingRun
    /\ \/ PlainCalls
       \/ SteppedCalls
       \/ LowSteppedCalls
       \/ MalformedCalls
       \/ SpelledCalls
       \/ FindIntersectsCalls
       \/ VolumeTypesCalls

\* a call of convert_indexes
ConversionInit == NothingRun /\ ConvertIndexesCalls

\* a call of marching of a script of src/videos
ScriptsInit == NothingRun /\ VideoCalls

\* the call raises: no array is returned
Raise(exception) ==
    /\ pc' = "raised"
    /\ error' = exception
    /\ UNCHANGED <<shape, volume, interpolation, zeroed, volume_test, size_multiplier, vertices, vertex_ids, classified, types, edge_geometry, geometry>>
    /\ UNCHANGED args

\* a marching that subtracts the level in the caller's array (volume -= level)
CallerVolumeZeroed ==
    /\ arg_volume' = IF level # 0 /\ arg_volume # <<>>
                     THEN SubtractLevel(arg_volume, level) ELSE arg_volume
    /\ UNCHANGED <<callee, operation, backend, arg_shape, level, arg_interpolation, step_size, resolve_ambiguous, arg_volume_test, arg_slices, dtype, arg_array, arg_ordered_ids, method>>

\* marching rebinds its names (volume = volume[...], volume = volume - level) and
\* writes only arrays it has made itself, so the caller's arguments stay as given
CallerArraysKept == UNCHANGED args

\* the stages shared by both factories, up to look_up_geometry
Stages ==
    LET b == Bound(operation)
    IN  /\ interpolation' = Upper(arg_interpolation)
        /\ shape' = IF Resamples(step_size) THEN StridedShape(arg_shape, b.nD, step_size)
                    ELSE arg_shape
        /\ volume' = IF Resamples(step_size) THEN Strided(arg_volume, arg_shape, b.nD, step_size)
                     ELSE arg_volume
        /\ zeroed' = IF level # 0 THEN SubtractLevel(volume', level) ELSE volume'
        /\ volume_test' = VolumeTest(zeroed')
        /\ size_multiplier' = SizeMultiplier(shape', b.nD, b.nEdges)
        /\ LET found == find_intersects(b.intersect_slice_indexes, zeroed', shape',
                                        size_multiplier', volume_test', interpolation')
           IN  /\ vertices' = found.intersects
               /\ vertex_ids' = found.intersect_ids
        /\ classified' = volume_types(volume_test', shape', b.volume_type_slices)
        /\ types' = IF resolve_ambiguous /\ b.ambiguity_resolution
                    THEN ambiguity_resolution(classified', zeroed')
                    ELSE classified'
        /\ edge_geometry' = look_up_geometry(types', [a \in 1 .. Len(shape') |-> shape'[a] - 1],
                                             b.geometry_array,
                                             b.edge_delta, b.edge_direction,
                                             size_multiplier', backend)

\* marching of MarchingNumPy.Marching.marching_factory
MarchingNumPy ==
    /\ pc = "call" /\ callee = "marching" /\ backend = "NumPy"
    /\ LET exception == Rejection(Bound(operation), arg_shape, step_size, arg_interpolation)
       IN  IF exception # "none" THEN Raise(exception)
           ELSE /\ Stages
                /\ LET converted == convert_indexes(edge_geometry', vertex_ids')
                   IN  /\ geometry' = converted.value
                       /\ error' = converted.error
                /\ pc' = "done"
                /\ CallerArraysKept

\* marching of MarchingCuPy.Marching.marching_factory
MarchingCuPy ==
    /\ pc = "call" /\ callee = "marching" /\ backend = "CuPy"
    /\ LET exception == Rejection(Bound(operation), arg_shape, step_size, arg_interpolation)
       IN  IF exception # "none" THEN Raise(exception)
           ELSE /\ Stages
                /\ geometry' = edge_geometry'
                /\ error' = "none"
                /\ pc' = "done"
                /\ CallerArraysKept

\* find_intersects called directly
FindIntersectsCall ==
    /\ pc = "call" /\ callee = "find_intersects"
    /\ LET b == Bound(operation)
           exception == FindIntersectsRejection(arg_shape, level, arg_volume_test, arg_interpolation)
       IN  IF exception # "none" THEN Raise(exception)
           ELSE /\ shape' = arg_shape /\ volume' = arg_volume
                /\ interpolation' = Upper(arg_interpolation)
                /\ zeroed' = IF level # 0 THEN SubtractLevel(arg_volume, level)
                             ELSE arg_volume
                /\ volume_test' = IF ~arg_volume_test.supplied \/ level # 0
                                  THEN VolumeTest(zeroed') ELSE arg_volume_test.test
                /\ size_multiplier' = SizeMultiplier(arg_shape, b.nD, b.nEdges)
                /\ LET found == find_intersects(b.intersect_slice_indexes, zeroed',
                                                arg_shape, size_multiplier',
                                                volume_test', interpolation')
                   IN  /\ vertices' = found.intersects
                       /\ vertex_ids' = found.intersect_ids
                /\ pc' = "found" /\ error' = "none"
                /\ UNCHANGED <<classified, types, edge_geometry, geometry>>
                /\ UNCHANGED args

\* volume_types called directly
VolumeTypesCall ==
    /\ pc = "call" /\ callee = "volume_types"
    /\ LET exception == VolumeTypesRejection(arg_volume_test.shape, arg_slices, dtype)
       IN  IF exception # "none" THEN Raise(exception)
           ELSE /\ shape' = arg_volume_test.shape
                /\ volume_test' = arg_volume_test.test
                /\ classified' = volume_types(arg_volume_test.test,
                                              arg_volume_test.shape, arg_slices)
                /\ types' = classified'
                /\ pc' = "typed" /\ error' = "none"
                /\ UNCHANGED <<volume, interpolation, zeroed, size_multiplier, vertices, vertex_ids, edge_geometry, geometry>>
                /\ UNCHANGED args

\* convert_indexes called directly
ConvertIndexesCall ==
    /\ pc = "call" /\ callee = "convert_indexes"
    /\ LET converted == convert_indexes_method(arg_array, arg_ordered_ids, method)
       IN  IF converted.error # "none" THEN Raise(converted.error)
           ELSE /\ geometry' = converted.value
                /\ vertex_ids' = arg_ordered_ids
                /\ edge_geometry' = arg_array
                /\ pc' = "converted" /\ error' = "none"
                /\ UNCHANGED <<shape, volume, interpolation, zeroed, volume_test, size_multiplier, vertices, classified, types>>
                /\ UNCHANGED args

\* marching of a script of src/videos called on a volume
VideoMarching ==
    /\ pc = "call" /\ callee = "video_marching"
    /\ LET marched == IF backend = "Video01"
                      THEN MarchingBasic_marching(arg_volume, arg_shape, level)
                      ELSE MarchingNumpy_marching(arg_volume, arg_shape, level)
       IN  IF marched.error # "none" THEN Raise(marched.error)
           ELSE /\ vertices' = marched.vertices
                /\ vertex_ids' = marched.vertex_ids
                /\ edge_geometry' = marched.triangle_ids
                /\ geometry' = marched.triangles
                /\ pc' = "marched" /\ error' = "none"
                /\ UNCHANGED <<shape, volume, interpolation, zeroed, volume_test, size_multiplier, classified, types>>
                /\ UNCHANGED args

Next ==
    \/ MarchingNumPy
    \/ MarchingCuPy
    \/ FindIntersectsCall
    \/ VolumeTypesCall

Spec == Init /\ [][Next]_vars

\* convert_indexes on its own
ConversionSpec == ConversionInit /\ [][ConvertIndexesCall]_vars

\* the marching cubes scripts on their own
ScriptsSpec == ScriptsInit /\ [][VideoMarching]_vars

(***************************************************************************)
(* Properties.                                                             *)
(***************************************************************************)
Done == pc = "done"

\* C1: every entry g of the geometry returned by a MarchingNumPy callable is an
\* index 0 <= g < V into the returned vertices, and vertex_ids[g] is the EdgeId
\* look_up_geometry emitted at that position; the call raises nothing.
C1_GeometryIndexesVertices ==
    (Done /\ backend = "NumPy") =>
        /\ error = "none"
        /\ Len(geometry) = Len(edge_geometry)
        /\ \A r \in 1 .. Len(geometry) :
               /\ Len(geometry[r]) = Len(edge_geometry[r])
               /\ \A j \in 1 .. Len(geometry[r]) :
                      /\ 0 <= geometry[r][j]
                      /\ geometry[r][j] < Len(vertices)
                      /\ vertex_ids[geometry[r][j] + 1] = edge_geometry[r][j]

\* C1 witness: a triangles call on four cells that returned at least three
\* segments, one of them not starting at vertex 0
C1_Witness ==
    /\ Done /\ backend = "NumPy" /\ operation = "marching_triangles"
    /\ shape = <<3, 3>>
    /\ Len(geometry) >= 3
    /\ \E r \in 1 .. Len(geometry) : geometry[r][1] > 2 /\ geometry[r][2] > 0

\* the number of simplices in a row of a geometry table
SimplexCount(row, nV) ==
    Cardinality({s \in 0 .. (Len(row) \div nV) - 1 : row[s * nV + 1] # -1})

RECURSIVE SumOver(_, _)
SumOver(cells, types_) ==
    IF cells = <<>> THEN 0
    ELSE SimplexCount(At(Bound(operation).geometry_array, types_[Head(cells)]),
                      Len(Bound(operation).edge_delta[1]))
         + SumOver(Tail(cells), types_)

\* C2: look_up_geometry returns one row for every non-sentinel simplex slot of
\* every cell's table row: M is the sum over the cells of the number of simplices
\* in geometry_array[types[cell]].
C2_OneRowPerSimplex ==
    Done => Len(edge_geometry)
              = SumOver(RowMajor([a \in 1 .. Len(shape) |-> shape[a] - 1]), types)

\* C3: the geometry returned by a MarchingCuPy callable holds ordinal indexes
\* into the returned vertices (the remap stage has run), not raw EdgeIds.
C3_CuPyGeometryIsRemapped ==
    (Done /\ backend = "CuPy") =>
        \A r \in 1 .. Len(geometry) : \A j \in 1 .. Len(geometry[r]) :
            /\ geometry[r][j] < Len(vertices)
            /\ vertex_ids[geometry[r][j] + 1] = edge_geometry[r][j]

Starts(slices) == [a \in 1 .. Len(slices) |-> slices[a].start]
TypesShape == [a \in 1 .. Len(shape) |-> shape[a] - 1]

\* the positions of the crossings of slice pair i, in the order of numpy.nonzero
CrossingsOf(i) ==
    LET pair == Bound(operation).intersect_slice_indexes[i]
        IsCrossing(p) == Crossing(volume_test, pair[1], pair[2], p)
    IN  SelectSeq(RowMajor(SliceShape(shape, pair[1])), IsCrossing)

\* the point A_pos + t * (B_pos - A_pos) for the crossing at position p of slice
\* pair i, t measured from sample A
PointOnSegment(i, p) ==
    LET pair == Bound(operation).intersect_slice_indexes[i]
        A_pos == SliceBase(pair[1], p)
        B_pos == SliceBase(pair[2], p)
        t == InterpolatedOffset(interpolation, zeroed[A_pos], zeroed[B_pos])
    IN  [a \in 1 .. Len(p) |->
            Rat(A_pos[a] * t.d + (B_pos[a] - A_pos[a]) * t.n, t.d)]

RECURSIVE PointsFrom(_)
PointsFrom(i) ==
    IF i > Len(Bound(operation).intersect_slice_indexes) THEN <<>>
    ELSE [k \in 1 .. Len(CrossingsOf(i)) |-> PointOnSegment(i, CrossingsOf(i)[k])]
         \o PointsFrom(i + 1)

\* C4: under HALFWAY and LINEAR every emitted vertex is the point
\* A_pos + t * (B_pos - A_pos) of the segment joining the two samples of its
\* slice pair whose tests differ, the diagonal slice pairs included.
C4_VertexOnSegment ==
    (Done /\ interpolation \in {"HALFWAY", "LINEAR"}) => vertices = PointsFrom(1)

\* the two corners of a cell (as offsets from its origin) joined by edge number e
EdgeEnds(binding, e) ==
    LET pair == binding.intersect_slice_indexes[At(binding.edge_direction, e) + 1]
    IN  << VecAdd(At(binding.edge_delta, e), Starts(pair[1])),
           VecAdd(At(binding.edge_delta, e), Starts(pair[2])) >>

\* bit number (0-based) of the corner at offset c from the cell origin
CornerBit(binding, c) ==
    (CHOOSE k \in 1 .. Len(binding.volume_type_slices) :
        Starts(binding.volume_type_slices[k]) = c) - 1

BitSet(t, k) == (t \div (2 ^ k)) % 2 = 1

\* rows 16 and 17 hold the corner bits of types 5 and 10
CornerBitsOf(t) == IF t = 16 THEN 5 ELSE IF t = 17 THEN 10 ELSE t

\* every edge named in a row of the table joins two corners whose bits differ
TableCrosses(binding, table) ==
    \A t \in 0 .. Len(table) - 1 : \A col \in 1 .. Len(table[t + 1]) :
        LET e == table[t + 1][col]
        IN  e # -1 =>
                BitSet(CornerBitsOf(t), CornerBit(binding, EdgeEnds(binding, e)[1]))
                    # BitSet(CornerBitsOf(t), CornerBit(binding, EdgeEnds(binding, e)[2]))

TablesCross ==
    /\ TableCrosses(marching_squares, marching_squares.geometry_array)
    /\ TableCrosses(marching_squares, NUMPY_SQUARES_GEOMETRY_LOOKUP)
    /\ TableCrosses(marching_triangles, marching_triangles.geometry_array)
    /\ TableCrosses(marching_triangles_reversed,
                    marching_triangles_reversed.geometry_array)

\* C5: in every bound table every edge number of row t joins two corners whose
\* bits differ in t, and every EdgeId emitted by look_up_geometry is among the
\* ids produced by find_intersects for the same volume.
C5_GeometryIdsAreIntersectIds ==
    /\ TablesCross
    /\ Done => \A r \in 1 .. Len(edge_geometry) :
                   \A j \in 1 .. Len(edge_geometry[r]) :
                       \E k \in 1 .. Len(vertex_ids) :
                           vertex_ids[k] = edge_geometry[r][j]

\* C5 witness: a reversed-triangles call whose geometry names a vertex on a
\* diagonal edge (direction 2) and one on an edge owned by the neighbouring corner
C5_Witness ==
    /\ Done /\ operation = "marching_triangles_reversed" /\ shape = <<2, 3>>
    /\ \E r \in 1 .. Len(edge_geometry) : edge_geometry[r][1] % 3 = 2
    /\ \E r \in 1 .. Len(edge_geometry) : edge_geometry[r][2] >= size_multiplier[1]

\* the EdgeId of (corner, direction)
EdgeId(corner, direction) == Dot(corner, size_multiplier) + direction

\* C6: with the size_multiplier computed by marching, EdgeId is injective over
\* the (corner, direction) pairs of the volume; every binding has nEdges slice
\* pairs and edge directions below nEdges; so the ids returned by
\* find_intersects are pairwise distinct.
C6_EdgeIdsDistinct ==
    Done =>
        LET b == Bound(operation)
            pairs == Positions(shape) \X (0 .. b.nEdges - 1)
        IN  /\ size_multiplier[b.nD] = b.nEdges
            /\ \A a \in 1 .. b.nD - 1 :
                   size_multiplier[a] = size_multiplier[a + 1] * shape[a + 1]
            /\ Cardinality({EdgeId(x[1], x[2]) : x \in pairs}) = Cardinality(pairs)
            /\ Len(b.intersect_slice_indexes) = b.nEdges
            /\ \A e \in 1 .. Len(b.edge_direction) : b.edge_direction[e] < b.nEdges
            /\ Cardinality(SeqToSet(vertex_ids)) = Len(vertex_ids)

\* C6 witness: a triangles call on a 2 x 3 volume with crossings in all three
\* directions, five or more of them
C6_Witness ==
    /\ Done /\ operation = "marching_triangles" /\ shape = <<2, 3>>
    /\ Len(vertex_ids) >= 5
    /\ \A d \in 0 .. 2 : \E k \in 1 .. Len(vertex_ids) : vertex_ids[k] % 3 = d

\* v(0,0) * v(1,1) < v(0,1) * v(1,0) on the values the resolver is given
FaceTest(cell) ==
    zeroed[cell] * zeroed[VecAdd(cell, <<1, 1>>)]
        < zeroed[VecAdd(cell, <<0, 1>>)] * zeroed[VecAdd(cell, <<1, 0>>)]

\* C7: after the ambiguity stage of marching_squares with resolve_ambiguous true
\* a type is 16 iff the classifier gave 5 and the face test holds, 17 iff the
\* classifier gave 10 and the face test holds, and every other cell keeps its
\* classified type; with resolve_ambiguous false or no resolver bound every
\* type is the classifier's and rows 16 and 17 are not used.
C7_AmbiguityStage ==
    Done =>
        \A cell \in DOMAIN types :
            IF operation = "marching_squares" /\ resolve_ambiguous
            THEN /\ types[cell] = 16 <=> (classified[cell] = 5 /\ FaceTest(cell))
                 /\ types[cell] = 17 <=> (classified[cell] = 10 /\ FaceTest(cell))
                 /\ types[cell] \notin {16, 17} => types[cell] = classified[cell]
            ELSE types[cell] = classified[cell] /\ types[cell] < 16

\* C7 witness: a squares call that resolved one saddle to 16 and left another
\* saddle of the same volume at 10
C7_Witness ==
    /\ Done /\ operation = "marching_squares" /\ resolve_ambiguous
    /\ \E c \in DOMAIN types : types[c] = 16
    /\ \E c \in DOMAIN types : types[c] = 10

\* C7 witness of the other rewrite, 10 -> 17
C7_Witness17 ==
    /\ Done /\ operation = "marching_squares" /\ resolve_ambiguous
    /\ \E c \in DOMAIN types : types[c] = 17 /\ classified[c] = 10

\* the corner and the direction an EdgeId encodes
CornerOf(id) ==
    [a \in 1 .. Len(shape) |-> (id \div size_multiplier[a]) % shape[a]]
DirectionOf(id) == id % Bound(operation).nEdges

\* x - c for a coordinate x and an integer c
Less(x, c) == [n |-> x.n - c * x.d, d |-> x.d, acos |-> x.acos]

\* vertex k has every coordinate but that of axis a equal to its corner's, and
\* the coordinate of axis a in [corner, corner + 1]
OnAxisEdge(k, a) ==
    LET corner == CornerOf(vertex_ids[k])
    IN  /\ \A b \in 1 .. Len(shape) :
               b # a => vertices[k][b] = Rat(corner[b], 1)
        /\ InUnit(Less(vertices[k][a], corner[a]))

\* C8 as stated: every returned vertex of every bound operation has all but one
\* coordinate integral and the remaining one in [corner, corner + 1].
C8_AllVerticesOnAxisEdges ==
    Done => \A k \in 1 .. Len(vertices) : \E a \in 1 .. Len(shape) : OnAxisEdge(k, a)

\* C8 amended: a vertex of an axis-aligned slice pair (direction 0 or 1: all of
\* marching_squares) has every coordinate but that of its slice pair's axis equal
\* to its corner's and that one in [corner, corner + 1]; a vertex of a diagonal
\* slice pair (direction 2 of the triangle bindings) has each of its coordinates
\* in [corner, corner + 1].
C8_VerticesOnGridEdges ==
    Done => \A k \in 1 .. Len(vertices) :
                IF DirectionOf(vertex_ids[k]) < Len(shape)
                THEN OnAxisEdge(k, DirectionOf(vertex_ids[k]) + 1)
                ELSE \A a \in 1 .. Len(shape) :
                         InUnit(Less(vertices[k][a], CornerOf(vertex_ids[k])[a]))

\* C8 witness: a triangles call under LINEAR with a diagonal vertex strictly
\* inside its cell and an axis-aligned vertex strictly inside its edge
C8_Witness ==
    /\ Done /\ operation = "marching_triangles" /\ interpolation = "LINEAR"
    /\ \E k \in 1 .. Len(vertices) :
           /\ DirectionOf(vertex_ids[k]) = 2
           /\ \A a \in 1 .. 2 : vertices[k][a].d = 3
    /\ \E k \in 1 .. Len(vertices) :
           /\ DirectionOf(vertex_ids[k]) = 0
           /\ vertices[k][1].d = 3 /\ vertices[k][2].d = 1

\* the pairs <<v_A, v_B>> of samples the crossing mask selects, over every slice
\* pair of the bound operation
SelectedPairs ==
    UNION {
        LET pair == Bound(operation).intersect_slice_indexes[i]
        IN  { <<zeroed[SliceBase(pair[1], p)], zeroed[SliceBase(pair[2], p)]>> :
                p \in SeqToSet(CrossingsOf(i)) }
        : i \in 1 .. Len(Bound(operation).intersect_slice_indexes) }

\* C9: for every pair of samples the crossing mask selects exactly one is >= 0;
\* the LINEAR denominator v_A - v_B is not zero and t = v_A / (v_A - v_B) lies in
\* [0, 1] and solves v_A + (v_B - v_A) * t = 0; the COSINE arccos argument
\* (v_B + v_A) / (v_B - v_A) lies in [-1, 1] and its offset in [0, 1].
C9_OffsetWellDefined ==
    Done => \A vv \in SelectedPairs :
                LET v_A == vv[1]
                    v_B == vv[2]
                    t == InterpolatedOffset("LINEAR", v_A, v_B)
                    argument == Rat(v_B + v_A, v_B - v_A)
                IN  /\ (v_A >= 0) # (v_B >= 0)
                    /\ v_A - v_B # 0
                    /\ IsRat(t) /\ InUnit(t)
                    /\ v_A * t.d + (v_B - v_A) * t.n = 0
                    /\ IsRat(argument) /\ Abs(argument.n) <= argument.d
                    /\ InUnit(InterpolatedOffset("COSINE", v_A, v_B))

\* C9 witness: a call whose mask selected a pair with v_A = 0 and a pair with
\* v_B = 0, and a pair of unequal magnitudes
C9_Witness ==
    /\ Done /\ level = 1
    /\ \E vv \in SelectedPairs : vv[1] = 0
    /\ \E vv \in SelectedPairs : vv[2] = 0
    /\ \E vv \in SelectedPairs : vv[1] > 0 /\ vv[1] + vv[2] < 0

\* the run of the same operation on the negated field, -volume at -level
NegVolume == [p \in DOMAIN volume |-> -volume[p]]
NegZeroed == IF -level # 0 THEN SubtractLevel(NegVolume, -level) ELSE NegVolume
NegTest == VolumeTest(NegZeroed)
NegFound ==
    find_intersects(Bound(operation).intersect_slice_indexes, NegZeroed, shape,
                    size_multiplier, NegTest, interpolation)
NegTypes ==
    LET classified_ == volume_types(NegTest, shape, Bound(operation).volume_type_slices)
    IN  IF resolve_ambiguous /\ Bound(operation).ambiguity_resolution
        THEN ambiguity_resolution(classified_, NegZeroed) ELSE classified_
NegEdgeGeometry ==
    look_up_geometry(NegTypes, TypesShape, Bound(operation).geometry_array,
                     Bound(operation).edge_delta, Bound(operation).edge_direction,
                     size_multiplier, backend)

\* the vertices as a set of (EdgeId, position) pairs
VertexSet(intersects, intersect_ids) ==
    {<<intersect_ids[k], intersects[k]>> : k \in 1 .. Len(intersects)}

SameVertexPositions == SeqToSet(NegFound.intersects) = SeqToSet(vertices)

SameVerticesInvertedSimplices ==
    /\ SameVertexPositions
    /\ VertexSet(NegFound.intersects, NegFound.intersect_ids)
           = VertexSet(vertices, vertex_ids)
    /\ SeqToSet(NegEdgeGeometry) = {Reversed(row) : row \in SeqToSet(edge_geometry)}

\* C10 as stated: for every volume and level, marching -volume at -level yields
\* the same set of vertex positions.
C10_ReflectiveSymmetry == Done => SameVertexPositions

\* C10 amended: for every volume none of whose samples equals level, marching
\* -volume at -level yields the same vertices on the same edges, and the same
\* simplices with the orientation of each inverted.
C10_ReflectiveSymmetryNoTie ==
    (Done /\ \A p \in DOMAIN volume : volume[p] # level)
        => SameVerticesInvertedSimplices

\* C10 witness: a squares call with level 1 and no sample at the level that
\* resolved a saddle and returned four vertices under LINEAR
C10_Witness ==
    /\ Done /\ level = 1 /\ \A p \in DOMAIN volume : volume[p] # level
    /\ operation = "marching_squares" /\ interpolation = "LINEAR"
    /\ \E c \in DOMAIN types : types[c] \in {16, 17}
    /\ Len(vertices) >= 4

\* a call of a bound marching callable has ended
Marched == callee = "marching" /\ pc # "call"

\* the arrays marching returns for a volume with the default step size, the other
\* arguments being those of the call
MarchingOf(vol, shape_, interpolation_) ==
    LET b == Bound(operation)
        zeroed_ == IF level # 0 THEN SubtractLevel(vol, level) ELSE vol
        test == VolumeTest(zeroed_)
        multiplier == SizeMultiplier(shape_, b.nD, b.nEdges)
        found == find_intersects(b.intersect_slice_indexes, zeroed_, shape_,
                                 multiplier, test, interpolation_)
        classified_ == volume_types(test, shape_, b.volume_type_slices)
        types_ == IF resolve_ambiguous /\ b.ambiguity_resolution
                  THEN ambiguity_resolution(classified_, zeroed_) ELSE classified_
        edges == look_up_geometry(types_, [a \in 1 .. Len(shape_) |-> shape_[a] - 1],
                                  b.geometry_array, b.edge_delta, b.edge_direction,
                                  multiplier, backend)
    IN  [vertices |-> found.intersects,
         geometry |-> IF backend = "NumPy"
                      THEN convert_indexes(edges, found.intersect_ids).value
                      ELSE edges]

\* volume[::s, ::s, ...]: every s-th sample along every axis; a step size of one
\* or less keeps every sample
EveryNthShape(shape_, s) ==
    [a \in 1 .. Len(shape_) |-> IF s > 1 THEN ((shape_[a] - 1) \div s) + 1 ELSE shape_[a]]
EveryNth(vol, shape_, s) ==
    [p \in Positions(EveryNthShape(shape_, s)) |->
        vol[[a \in 1 .. Len(p) |-> IF s > 1 THEN s * p[a] ELSE p[a]]]]

\* C11: a marching call with step size s >= 2 ends as the call on volume[::s, ::s]
\* with step size 1 does: it returns exactly when that call returns, and then the
\* same vertices (in strided-grid units) and the same geometry.
C11_StepSizeComposition ==
    (Marched /\ step_size >= 2) =>
        LET sub_shape == EveryNthShape(arg_shape, step_size)
            sub_volume == EveryNth(arg_volume, arg_shape, step_size)
            accepted == Rejection(Bound(operation), sub_shape, 1, arg_interpolation) = "none"
        IN  /\ pc = "done" <=> accepted
            /\ pc = "done" =>
                   /\ vertices = MarchingOf(sub_volume, sub_shape, interpolation).vertices
                   /\ geometry = MarchingOf(sub_volume, sub_shape, interpolation).geometry

\* C11 witness: marching_squares on the 4 x 4 field (i + j) - 3 with step size 2
\* marched the 2 x 2 field with corners -3, -1, -1, 1 and returned one segment
\* whose two vertices lie in the unit cell of the strided grid
C11_Witness ==
    /\ Done /\ operation = "marching_squares" /\ backend = "NumPy"
    /\ arg_volume = Ramp /\ step_size = 2 /\ level = 0
    /\ shape = <<2, 2>>
    /\ volume[<<0, 0>>] = -3 /\ volume[<<0, 1>>] = -1
    /\ volume[<<1, 0>>] = -1 /\ volume[<<1, 1>>] = 1
    /\ Len(vertices) = 2 /\ Len(geometry) = 1
    /\ \A k \in 1 .. 2 : \A a \in 1 .. 2 : InUnit(vertices[k][a])

\* the spellings that match a name of INTERPOLATION_VALUES without regard to case
CaseVariantsOf(name) ==
    CASE name = "LINEAR" -> {"LINEAR", "linear", "Linear"}
      [] name = "HALFWAY" -> {"HALFWAY", "halfway", "HalfWay"}
      [] name = "COSINE" -> {"COSINE", "cosine", "Cosine"}

\* the call is one the interface admits: a volume of nD axes with two samples or
\* more along each axis after the striding, and a known interpolation
WellFormedCall ==
    /\ Len(arg_shape) = Bound(operation).nD
    /\ \A a \in 1 .. Len(arg_shape) : EveryNthShape(arg_shape, step_size)[a] >= 2
    /\ \E name \in {"LINEAR", "HALFWAY", "COSINE"} : arg_interpolation \in CaseVariantsOf(name)

\* C12: a marching call on a volume whose samples are all >= level, or all < level,
\* returns without error and with no vertex and no simplex.
C12_UniformVolumeIsEmpty ==
    (/\ Marched /\ WellFormedCall
     /\ \/ \A p \in DOMAIN arg_volume : arg_volume[p] >= level
        \/ \A p \in DOMAIN arg_volume : arg_volume[p] < level)
        => /\ pc = "done" /\ error = "none"
           /\ vertices = <<>> /\ vertex_ids = <<>>
           /\ edge_geometry = <<>> /\ geometry = <<>>

\* C12 witness: a triangles call on a 3 x 3 volume every sample of which equals the
\* level returned empty arrays
C12_Witness ==
    /\ Done /\ operation = "marching_triangles_reversed" /\ backend = "NumPy"
    /\ shape = <<3, 3>> /\ level = 1
    /\ \A p \in DOMAIN arg_volume : arg_volume[p] = level
    /\ vertices = <<>> /\ geometry = <<>> /\ error = "none"

\* rows 1, 2, 4 and 8 of a squares table hold one segment each, in the first slot
OneSegmentRows(table) ==
    \A t \in {1, 2, 4, 8} :
        /\ table[t + 1][1] # -1 /\ table[t + 1][2] # -1
        /\ table[t + 1][3] = -1 /\ table[t + 1][4] = -1

\* C13: marching_squares on a single-cell volume with exactly one corner at or
\* above the level (types 1, 2, 4, 8) returns exactly two vertices and exactly one
\* line segment, whichever the corner and the interpolation.
C13_OneCornerOneSegment ==
    /\ OneSegmentRows(SQUARES_GEOMETRY_LOOKUP)
    /\ OneSegmentRows(NUMPY_SQUARES_GEOMETRY_LOOKUP)
    /\ (/\ Done /\ operation = "marching_squares" /\ shape = <<2, 2>>
        /\ Cardinality({p \in DOMAIN volume : volume[p] >= level}) = 1)
           => /\ types[<<0, 0>>] \in {1, 2, 4, 8}
              /\ Len(vertices) = 2 /\ Len(vertex_ids) = 2
              /\ Len(geometry) = 1 /\ Len(geometry[1]) = 2
              /\ geometry[1][1] # geometry[1][2]

\* C13 witness: the corner (0, 1) alone is at the level, under COSINE
C13_Witness ==
    /\ Done /\ operation = "marching_squares" /\ backend = "NumPy"
    /\ shape = <<2, 2>> /\ interpolation = "COSINE" /\ level = 1
    /\ volume[<<0, 1>>] = level
    /\ \A p \in DOMAIN volume : p # <<0, 1>> => volume[p] < level
    /\ types[<<0, 0>>] = 8
    /\ Len(vertices) = 2 /\ Len(geometry) = 1

\* row m of the output of look_up_geometry is slot s of the table row of the cell:
\* its j-th entry is the EdgeId of the edge whose number is the j-th entry of the slot
FromSlot(m, cell, s) ==
    LET b == Bound(operation)
        nV == Len(b.edge_delta[1])
        G == At(b.geometry_array, types[cell])
    IN  /\ G[s * nV + 1] # -1
        /\ \A j \in 1 .. nV :
               edge_geometry[m][j]
                   = EdgeId(VecAdd(cell, At(b.edge_delta, G[s * nV + j])),
                            At(b.edge_direction, G[s * nV + j]))

\* C14: every row of the output of look_up_geometry holds, in the order of the
\* table, the EdgeIds of the edges named by one slot of the table row of one cell;
\* and convert_indexes replaces each entry in place by the index of the vertex on
\* that edge, so the returned simplex keeps the order of the table slot.
C14_SimplexOrderPreserved ==
    Done =>
        LET b == Bound(operation)
            slots == 0 .. (Len(b.geometry_array[1]) \div Len(b.edge_delta[1])) - 1
        IN  /\ \A m \in 1 .. Len(edge_geometry) :
                   \E cell \in DOMAIN types : \E s \in slots : FromSlot(m, cell, s)
            /\ backend = "NumPy" =>
                   /\ Len(geometry) = Len(edge_geometry)
                   /\ \A m \in 1 .. Len(geometry) : \A j \in 1 .. Len(geometry[m]) :
                          vertex_ids[geometry[m][j] + 1] = edge_geometry[m][j]

\* C14 witness: a triangles call on two cells returned three segments or more, one
\* with its vertex indexes ascending and one with them descending
C14_Witness ==
    /\ Done /\ operation = "marching_triangles" /\ backend = "NumPy"
    /\ shape = <<2, 3>> /\ Len(geometry) >= 3
    /\ \E m \in 1 .. Len(geometry) : geometry[m][1] < geometry[m][2]
    /\ \E m \in 1 .. Len(geometry) : geometry[m][1] > geometry[m][2]

\* find_intersects has returned, called by marching or directly
Found == pc \in {"done", "found"}

\* the indexes k of the returned vertices whose EdgeId has direction d, in order
GroupOf(d) == SelectSeq([k \in 1 .. Len(vertex_ids) |-> k],
                        LAMBDA k : DirectionOf(vertex_ids[k]) = d)

\* vertex k lies in the unit cell at the corner its EdgeId encodes, and moves off
\* the corner only along the axes its slice pair moves along
SameEdge(k) ==
    LET corner == CornerOf(vertex_ids[k])
        pair == Bound(operation).intersect_slice_indexes[DirectionOf(vertex_ids[k]) + 1]
    IN  \A a \in 1 .. Len(shape) :
            /\ InUnit(Less(vertices[k][a], corner[a]))
            /\ Starts(pair[1])[a] = Starts(pair[2])[a]
                   => vertices[k][a] = Rat(corner[a], 1)

Typed == pc \in {"done", "typed"}

\* the corner slices the call of volume_types was given
SlicesUsed ==
    IF callee = "volume_types" THEN arg_slices ELSE Bound(operation).volume_type_slices

\* bit k (from 0) of the non-negative integer t
BitOf(t, k) == (t \div 2 ^ k) % 2

\* calculate_volume_type() at the cell (x, y, z) (Video02/MarchingProfile.py)
calculate_volume_type(vt, x, y, z) ==
      (IF vt[<<x, y, z>>] THEN 1 ELSE 0)
    + (IF vt[<<x + 1, y, z>>] THEN 2 ELSE 0)
    + (IF vt[<<x + 1, y + 1, z>>] THEN 4 ELSE 0)
    + (IF vt[<<x, y + 1, z>>] THEN 8 ELSE 0)
    + (IF vt[<<x, y, z + 1>>] THEN 16 ELSE 0)
    + (IF vt[<<x + 1, y, z + 1>>] THEN 32 ELSE 0)
    + (IF vt[<<x + 1, y + 1, z + 1>>] THEN 64 ELSE 0)
    + (IF vt[<<x, y + 1, z + 1>>] THEN 128 ELSE 0)

\* C16: the result of volume_types has one element per cell (each axis one shorter
\* than volume_test); bit k of a cell's value is set exactly when volume_test is
\* true at the cell's corner k, the corners of 2D being (x, y) -> 1, (x+1, y) -> 2,
\* (x+1, y+1) -> 4, (x, y+1) -> 8; the value lies in 0 .. 2^C - 1 for C corners; and
\* with the eight corner slices of MarchingProfile it is the value of the scalar
\* calculate_volume_type at every cell.
C16_VolumeTypeBits ==
    Typed =>
        LET C == Len(SlicesUsed)
        IN  /\ DOMAIN classified = Positions(TypesShape)
            /\ \A cell \in DOMAIN classified :
                   /\ classified[cell] \in 0 .. 2 ^ C - 1
                   /\ \A k \in 1 .. C :
                          BitOf(classified[cell], k - 1) = 1
                              <=> volume_test[VecAdd(cell, Starts(SlicesUsed[k]))]
                   /\ SlicesUsed = VOLUME_TYPE_SLICES =>
                          classified[cell] =
                                (IF volume_test[cell] THEN 1 ELSE 0)
                              + (IF volume_test[VecAdd(cell, <<1, 0>>)] THEN 2 ELSE 0)
                              + (IF volume_test[VecAdd(cell, <<1, 1>>)] THEN 4 ELSE 0)
                              + (IF volume_test[VecAdd(cell, <<0, 1>>)] THEN 8 ELSE 0)
                   /\ SlicesUsed = PROFILE_VOLUME_TYPE_SLICES =>
                          classified[cell] =
                              calculate_volume_type(volume_test, cell[1], cell[2], cell[3])

\* C16 witness: a direct call with the eight corner slices on a 2 x 2 x 2 test
\* that is true at the corners 1, 3 and 7 only
C16_Witness ==
    /\ pc = "typed" /\ arg_slices = PROFILE_VOLUME_TYPE_SLICES
    /\ shape = <<2, 2, 2>>
    /\ classified[<<0, 0, 0>>] = 2 + 8 + 128

\* C16 witness in 2D: a 3 x 2 test classified into two cells of different types
C16_WitnessSquares ==
    /\ pc = "typed" /\ arg_slices = VOLUME_TYPE_SLICES
    /\ shape = <<3, 2>>
    /\ classified[<<0, 0>>] = 6 /\ classified[<<1, 0>>] = 9

\* the number of samples an axis of n samples keeps with stride s
KeptSamples(n, s) == IF s > 1 THEN (n + s - 1) \div s ELSE n

\* the volume of the call has not nD axes, or keeps fewer than two samples on some
\* axis after the striding
MalformedVolume ==
    \/ Len(arg_shape) # Bound(operation).nD
    \/ \E a \in 1 .. Len(arg_shape) : KeptSamples(arg_shape[a], step_size) < 2

\* C17: a marching call raises ValueError whenever the volume, after striding, has
\* not nD axes or has fewer than two samples on an axis, and no partial result is
\* returned.
C17_MalformedVolumeValueError ==
    Marched /\ MalformedVolume =>
        /\ pc = "raised" /\ error = "ValueError"
        /\ vertices = <<>> /\ geometry = <<>>

\* the volume of the call has nD axes and keeps two samples or more along each
WellFormedVolume ==
    /\ Len(arg_shape) = Bound(operation).nD
    /\ \A a \in 1 .. Len(arg_shape) : EveryNthShape(arg_shape, step_size)[a] >= 2

\* the interpolation names that the spelling of the call is a case variant of
NamesSpelled ==
    {name \in {"LINEAR", "HALFWAY", "COSINE"} : arg_interpolation \in CaseVariantsOf(name)}

\* C18: the interpolation name is matched without regard to case: a call spelled
\* "linear" or "Linear" returns what the call spelled "LINEAR" returns, and likewise
\* for HALFWAY and COSINE; any other value ends the call with ValueError before a
\* vertex is computed, also when the volume has no crossing at all.
C18_InterpolationCaseInsensitive ==
    /\ Marched /\ WellFormedVolume =>
           IF NamesSpelled # {}
           THEN \A name \in NamesSpelled :
                    LET canonical == MarchingOf(EveryNth(arg_volume, arg_shape, step_size),
                                                EveryNthShape(arg_shape, step_size), name)
                    IN  /\ pc = "done" /\ error = "none"
                        /\ interpolation = name
                        /\ vertices = canonical.vertices
                        /\ geometry = canonical.geometry
           ELSE /\ pc = "raised" /\ error = "ValueError"
                /\ vertices = <<>> /\ geometry = <<>>
    /\ (/\ callee = "find_intersects" /\ pc # "call"
        /\ Prod(arg_shape) > 0
        /\ arg_volume_test.supplied => arg_volume_test.shape = arg_shape)
           => IF NamesSpelled # {}
              THEN pc = "found" /\ NamesSpelled = {interpolation}
              ELSE pc = "raised" /\ error = "ValueError" /\ vertices = <<>>

\* C18 witness: a call spelled "cosine" that returned vertices
C18_Witness ==
    /\ Marched /\ pc = "done"
    /\ arg_interpolation = "cosine" /\ interpolation = "COSINE"
    /\ Len(vertices) >= 2

\* C18 witness of the rejection: an unknown name on a volume with no crossing
C18_WitnessRejected ==
    /\ Marched /\ pc = "raised" /\ error = "ValueError"
    /\ arg_interpolation = "cubic"
    /\ WellFormedVolume
    /\ \A p \in DOMAIN arg_volume : arg_volume[p] >= level

\* find_intersects was called directly and has ended
FindIntersectsCalled == callee = "find_intersects" /\ pc # "call"

\* the call supplies a volume_test whose shape is not the shape of the volume
MismatchedTest == arg_volume_test.supplied /\ arg_volume_test.shape # arg_shape

\* find_intersects ended with the invalid-input error and returned nothing
InvalidInput ==
    pc = "raised" /\ error = "ValueError" /\ vertices = <<>> /\ vertex_ids = <<>>

\* C19 as stated: find_intersects fails with the invalid-input error for every call
\* that supplies a volume_test of another shape than the volume's, at any level,
\* and for every call whose volume has zero size; no intersects are returned.
C19_InvalidInputAnyLevel ==
    FindIntersectsCalled /\ (MismatchedTest \/ Prod(arg_shape) = 0) => InvalidInput

\* C19 amended: find_intersects fails with the invalid-input error for every call
\* whose volume has zero size, and for every call with level zero that supplies a
\* volume_test of another shape than the volume's; no intersects are returned. With
\* a non-zero level a supplied volume_test is not looked at, whatever its shape: the
\* test is recomputed from the volume and the call returns if the interpolation is
\* known.
C19_InvalidInputAtLevelZero ==
    FindIntersectsCalled =>
        /\ Prod(arg_shape) = 0 => InvalidInput
        /\ MismatchedTest /\ level = 0 => InvalidInput
        /\ (/\ Prod(arg_shape) > 0 /\ arg_volume_test.supplied /\ level # 0
            /\ NamesSpelled # {})
               => /\ pc = "found" /\ error = "none"
                  /\ volume_test = VolumeTest(SubtractLevel(arg_volume, level))
                  /\ vertices = MarchingOf(arg_volume, arg_shape,
                                           Upper(arg_interpolation)).vertices

\* C19 witness: a call at level zero with a volume_test of another shape, rejected
C19_Witness ==
    /\ FindIntersectsCalled /\ MismatchedTest /\ level = 0
    /\ Prod(arg_shape) > 0 /\ NamesSpelled # {}
    /\ InvalidInput

\* C19 witness of the ignored test: a call at a non-zero level with a volume_test
\* of another shape that returned intersects
C19_WitnessIgnored ==
    /\ FindIntersectsCalled /\ MismatchedTest /\ level # 0
    /\ pc = "found" /\ Len(vertices) > 0

\* volume_types was called directly, on a test the shape check accepts, and has ended
VolumeTypesCalled ==
    /\ callee = "volume_types" /\ pc # "call"
    /\ assert_nd_array(arg_volume_test.shape, Len(arg_slices[1]), 1)

\* C20: volume_types fails with TypeError exactly when the integer dtype cannot hold
\* the largest type value 2^C - 1, C being the number of corner slices; whenever
\* 2^C - 1 <= max(dtype), as for 8 corners and an 8-bit unsigned type, it succeeds.
C20_TypeErrorIffTooNarrow ==
    VolumeTypesCalled =>
        LET largest == 2 ^ Len(arg_slices) - 1
        IN  /\ (pc = "raised" /\ error = "TypeError") <=> largest > iinfo_max(dtype)
            /\ largest <= iinfo_max(dtype) => pc = "typed" /\ error = "none"

\* convert_indexes was called directly and has ended
ConvertIndexesCalled == callee = "convert_indexes" /\ pc # "call"

\* C21: in both modes convert_indexes fails, returning no array, whenever some
\* value of the array is absent from ordered_ids; it never puts an index in the
\* place of an absent id.
C21_MissingVertexFails ==
    (/\ ConvertIndexesCalled
     /\ \E r \in 1 .. Len(arg_array) : \E j \in 1 .. Len(arg_array[r]) :
            \A k \in 1 .. Len(arg_ordered_ids) : arg_ordered_ids[k] # arg_array[r][j])
        => pc = "raised" /\ error # "none" /\ geometry = <<>>

\* the arrays a marching call on the caller's arguments, as they are now, returns
Rerun ==
    MarchingOf(EveryNth(arg_volume, arg_shape, IF step_size > 1 THEN step_size ELSE 1),
               EveryNthShape(arg_shape, IF step_size > 1 THEN step_size ELSE 1),
               Upper(arg_interpolation))

S1_Volume == [p \in Positions(<<2, 2>>) |-> IF p = <<1, 1>> THEN -1 ELSE 1]

\* marching_squares has returned for scenario S1: level 0, LINEAR, default step
S1_Returned ==
    /\ callee = "marching" /\ pc = "done"
    /\ operation = "marching_squares"
    /\ arg_shape = <<2, 2>> /\ arg_volume = S1_Volume
    /\ level = 0 /\ arg_interpolation = "LINEAR" /\ step_size = 1

\* the two vertices of S1: the first on the Top edge, the second on the Right edge
S1_Vertices ==
    /\ vertices = << <<Rat(1, 2), Rat(1, 1)>>, <<Rat(1, 1), Rat(1, 2)>> >>
    /\ vertex_ids = << Dot(size_multiplier, <<0, 1>>), Dot(size_multiplier, <<1, 0>>) + 1 >>

\* C23 as stated: in scenario S1 the cell has type 0b1110 = 14, there are two
\* vertices, at (0.5, 1.0) and (1.0, 0.5), and one segment, running from the vertex
\* of the Top edge to the vertex of the Right edge.
C23_ScenarioS1 ==
    S1_Returned =>
        /\ classified[<<0, 0>>] = 14
        /\ S1_Vertices
        /\ edge_geometry = << <<vertex_ids[1], vertex_ids[2]>> >>
        /\ Len(geometry) = 1

\* C23 amended: in scenario S1 the cell has type 0b1011 = 11 (the corners (x, y),
\* (x+1, y) and (x, y+1) are at or above the level), there are two vertices, at
\* (0.5, 1.0) and (1.0, 0.5), and one segment, running from the vertex of the Right
\* edge to the vertex of the Top edge.
C23_ScenarioS1Type11 ==
    S1_Returned =>
        /\ classified = [cell \in {<<0, 0>>} |-> 11] /\ types = classified
        /\ S1_Vertices
        /\ edge_geometry = << <<vertex_ids[2], vertex_ids[1]>> >>
        /\ backend = "NumPy" => geometry = << <<1, 0>> >>
        /\ backend = "CuPy" => geometry = edge_geometry

\* C23 witness: the MarchingNumPy call of scenario S1 has returned its segment
C23_Witness == S1_Returned /\ backend = "NumPy" /\ Len(geometry) = 1

\* in every row of the table the slots holding a simplex come before the slots
\* holding the sentinel
PackedLeft(table, nV) ==
    \A t \in 1 .. Len(table) :
        \A s \in 0 .. (Len(table[t]) \div nV) - 1 : \A later \in s + 1 .. (Len(table[t]) \div nV) - 1 :
            table[t][s * nV + 1] = -1 => table[t][later * nV + 1] = -1

\* C24: in every row of every bound geometry table (squares 18 rows, triangles and
\* triangles-reversed 16 rows) the simplex slots precede the sentinel slots, so the
\* stop of the look-up loop at the first slot no cell uses never skips a simplex
\* stored in a later slot: every simplex slot of every cell has its output row.
C24_RowsPackedLeft ==
    /\ Len(SQUARES_GEOMETRY_LOOKUP) = 18
    /\ Len(GEOMETRY_LOOKUP) = 16 /\ Len(GEOMETRY_LOOKUP_REVERSED) = 16
    /\ Done =>
           LET b == Bound(operation)
               nV == Len(b.edge_delta[1])
           IN  /\ \A op \in Operations : PackedLeft(Bound(op).geometry_array, nV)
               /\ \A cell \in DOMAIN types :
                      \A s \in 0 .. (Len(b.geometry_array[1]) \div nV) - 1 :
                          At(b.geometry_array, types[cell])[s * nV + 1] # -1
                              => \E m \in 1 .. Len(edge_geometry) : FromSlot(m, cell, s)

\* ordered_ids holds distinct ids, among them every value of the array
IdsCoverArray ==
    /\ \A k \in 1 .. Len(arg_ordered_ids) : \A other \in 1 .. Len(arg_ordered_ids) :
           arg_ordered_ids[k] = arg_ordered_ids[other] => k = other
    /\ \A r \in 1 .. Len(arg_array) : \A j \in 1 .. Len(arg_array[r]) :
           \E k \in 1 .. Len(arg_ordered_ids) : arg_ordered_ids[k] = arg_array[r][j]

\* C25: for every array and every ordered_ids of distinct ids that holds every
\* value of the array, convert_indexes returns under method NUMPY and under method
\* DICT arrays of the shape of the array with the same values, each the position
\* of the id in ordered_ids.
C25_ModesEquivalent ==
    ConvertIndexesCalled /\ IdsCoverArray =>
        LET dense == convert_indexes_method(arg_array, arg_ordered_ids, "NUMPY")
            sparse == convert_indexes_method(arg_array, arg_ordered_ids, "DICT")
        IN  /\ pc = "converted" /\ error = "none"
            /\ dense = sparse
            /\ geometry = dense.value
            /\ Len(geometry) = Len(arg_array)
            /\ \A r \in 1 .. Len(arg_array) :
                   /\ Len(geometry[r]) = Len(arg_array[r])
                   /\ \A j \in 1 .. Len(arg_array[r]) :
                          arg_ordered_ids[geometry[r][j] + 1] = arg_array[r][j]

\* C25 witness: a DICT call on two segments with three ids out of ascending order
C25_Witness ==
    /\ ConvertIndexesCalled /\ IdsCoverArray /\ pc = "converted"
    /\ method = "DICT"
    /\ Len(arg_array) = 2 /\ arg_array[1] # arg_array[2]
    /\ Len(arg_ordered_ids) = 3 /\ arg_ordered_ids[1] > arg_ordered_ids[2]

\* the two segments of a table row, each as the unordered pair of its edge numbers
PairsOf(row) == {{row[1], row[2]}, {row[3], row[4]}}

\* the product test of the saddle of a cell on the values measured from the level:
\* v(0,0) * v(1,1) < v(0,1) * v(1,0)
SaddleTest(cell) ==
    zeroed[cell] * zeroed[<<cell[1] + 1, cell[2] + 1>>]
        < zeroed[<<cell[1], cell[2] + 1>>] * zeroed[<<cell[1] + 1, cell[2]>>]

\* marching_squares has returned with resolve_ambiguous = true
SquaresResolved ==
    Done /\ operation = "marching_squares" /\ resolve_ambiguous

C26_WitnessUnresolved ==
    /\ SquaresResolved /\ shape = <<2, 2>>
    /\ classified[<<0, 0>>] = 10 /\ ~SaddleTest(<<0, 0>>)
    /\ Len(geometry) = 2

\* the directed segments of a table row, the sentinel pair among them
DirectedSegments(row) == {<<row[1], row[2]>>, <<row[3], row[4]>>}

\* the segments with the two edge numbers of each exchanged
Swapped(segments) == {<<segment[2], segment[1]>> : segment \in segments}

\* for every type t of the set, row 15 - t holds the segments of row t swapped
ComplementSymmetric(table, typeset) ==
    \A t \in typeset :
        DirectedSegments(At(table, 15 - t)) = Swapped(DirectedSegments(At(table, t)))

\* row t is row u with each of its two segments reversed in place
SegmentwiseReversal(table, t, u) ==
    At(table, t) = <<At(table, u)[2], At(table, u)[1], At(table, u)[4], At(table, u)[3]>>

\* C27 as stated: whenever a bound operation has run, every bound 2D geometry table
\* is complement-symmetric for every type t in 0..15, and in the squares tables
\* row 17 is the segment-wise reversal of row 16.
C27_ComplementSymmetric ==
    Done =>
        /\ \A table \in {SQUARES_GEOMETRY_LOOKUP, NUMPY_SQUARES_GEOMETRY_LOOKUP,
                         GEOMETRY_LOOKUP, GEOMETRY_LOOKUP_REVERSED} :
               ComplementSymmetric(table, 0 .. 15)
        /\ SegmentwiseReversal(SQUARES_GEOMETRY_LOOKUP, 17, 16)
        /\ SegmentwiseReversal(NUMPY_SQUARES_GEOMETRY_LOOKUP, 17, 16)

\* C27 amended: the two triangles tables and the squares table of MarchingCuPy are
\* complement-symmetric for every type t in 0..15, with row 17 the segment-wise
\* reversal of row 16; the squares table of MarchingNumpy, whose rows 5 and 16 are
\* exchanged, is complement-symmetric for every type other than 5 and 10, its row
\* 17 is the segment-wise reversal of row 5 and its row 10 that of row 16.
C27_ComplementSymmetricByBinding ==
    /\ \A table \in {SQUARES_GEOMETRY_LOOKUP, GEOMETRY_LOOKUP, GEOMETRY_LOOKUP_REVERSED} :
           ComplementSymmetric(table, 0 .. 15)
    /\ SegmentwiseReversal(SQUARES_GEOMETRY_LOOKUP, 17, 16)
    /\ ComplementSymmetric(NUMPY_SQUARES_GEOMETRY_LOOKUP, (0 .. 15) \ {5, 10})
    /\ SegmentwiseReversal(NUMPY_SQUARES_GEOMETRY_LOOKUP, 17, 5)
    /\ SegmentwiseReversal(NUMPY_SQUARES_GEOMETRY_LOOKUP, 10, 16)
    /\ Done =>
           \A cell \in DOMAIN types : \A other \in DOMAIN types :
               (types[cell] < 16 /\ types[other] = 15 - types[cell]) =>
                   DirectedSegments(At(Bound(operation).geometry_array, types[other]))
                       = Swapped(DirectedSegments(At(Bound(operation).geometry_array, types[cell])))

\* C27 witness: a triangles call on two cells of complementary types 10 and 5
\* that returned the segments of both
C27_Witness ==
    /\ Done /\ operation = "marching_triangles" /\ shape = <<3, 2>>
    /\ types[<<0, 0>>] = 10 /\ types[<<1, 0>>] = 5
    /\ Len(edge_geometry) = 4

\* the call is one of a marching cubes script and has returned or raised
VideoCalled == callee = "video_marching" /\ pc # "call"

\* marching of the script the call did not take, on the arguments of the call
OtherScript ==
    IF backend = "Video01"
    THEN MarchingNumpy_marching(arg_volume, arg_shape, level)
    ELSE MarchingBasic_marching(arg_volume, arg_shape, level)

\* the (EdgeId, vertex coordinate) pairs of a vertex list
VertexPairs(vertex_ids_, vertices_) ==
    {<<vertex_ids_[k], vertices_[k]>> : k \in 1 .. Len(vertex_ids_)}

\* each triangle as the ordered triple of the coordinates of its vertices
TriangleCoordinates(vertices_, triangles_) ==
    [r \in 1 .. Len(triangles_) |-> [j \in 1 .. 3 |-> vertices_[triangles_[r][j] + 1]]]

\* two lists hold the same elements the same number of times
SameMultiset(a, b) ==
    /\ Len(a) = Len(b)
    /\ \A x \in SeqToSet(a) :
           Len(SelectSeq(a, LAMBDA y : y = x)) = Len(SelectSeq(b, LAMBDA y : y = x))

C29_LowStepSizeAsOne ==
    (Marched /\ step_size <= 1) =>
        LET exception == Rejection(Bound(operation), arg_shape, 1, arg_interpolation)
            with_one == MarchingOf(arg_volume, arg_shape, interpolation)
        IN  IF exception # "none"
            THEN pc = "raised" /\ error = exception
            ELSE /\ pc = "done"
                 /\ shape = arg_shape /\ volume = arg_volume
                 /\ vertices = with_one.vertices
                 /\ geometry = with_one.geometry

\* a call with step size zero has returned a segment of a strip three samples
\* long, all three samples kept
C29_Witness ==
    /\ Done /\ step_size = 0
    /\ \E a \in 1 .. Len(arg_shape) : arg_shape[a] = 3
    /\ shape = arg_shape
    /\ Len(geometry) >= 1

\* a call with a negative step size has returned a segment of a strip three
\* samples long, all three samples kept
C29_WitnessNegative ==
    /\ Done /\ step_size < 0
    /\ \E a \in 1 .. Len(arg_shape) : arg_shape[a] = 3
    /\ shape = arg_shape
    /\ Len(geometry) >= 1

\* look_up_geometry of the package the call did not take, on the types, tables and
\* size multiplier of the call
OtherLookUp ==
    look_up_geometry(types, [a \in 1 .. Len(shape) |-> shape[a] - 1],
                     Bound(operation).geometry_array, Bound(operation).edge_delta,
                     Bound(operation).edge_direction, size_multiplier,
                     IF backend = "NumPy" THEN "CuPy" ELSE "NumPy")

\* C30: the two look_up_geometry implementations are equivalent: on the types
\* array, the tables and the size multiplier of any marching call, the rows the
\* call's package returned (MarchingNumPy: size_multiplier . (edge_delta[e] + cell)
\* + edge_direction[e]; MarchingCuPy: cell . size_multiplier + offset[e]) are the
\* rows the other package's look_up_geometry returns, in the same order.
C30_LookUpGeometryEquivalent ==
    Done => edge_geometry = OtherLookUp

\* a squares call of MarchingCuPy on four cells, one of them a saddle, returned
\* four rows or more, from two slots of the table and from cells away from the
\* origin, and the look_up_geometry of MarchingNumPy returns the same rows
C30_Witness ==
    /\ Done /\ backend = "CuPy" /\ shape = <<3, 3>>
    /\ Len(edge_geometry) >= 4
    /\ \E cell \in DOMAIN types : types[cell] \in {5, 10}
    /\ edge_geometry = OtherLookUp

\* a triangles call of MarchingNumPy returned three rows or more, and the
\* look_up_geometry of MarchingCuPy returns the same rows on its tables
C30_WitnessTriangles ==
    /\ Done /\ backend = "NumPy" /\ operation = "marching_triangles"
    /\ Len(edge_geometry) >= 3
    /\ edge_geometry = OtherLookUp
====
